---------------------------- MODULE Spec2Model ----------------------------
(***************************************************************************)
(* A model of the Sudoku boards, solvers and transformations of            *)
(* NiklasEi/sudoku-generator:                                              *)
(*   src/Sudoku/board.py          Board, Cell          (current classes)   *)
(*   src/Sudoku/Board.py          Board, Cell          (legacy classes)    *)
(*   src/Sudoku/norvig_solver.py  Solver               (propagation+search)*)
(*   src/Sudoku/Solver.py         Solver               (brute force)       *)
(*   src/Sudoku/generator.py      Generator.randomize                      *)
(*                                                                         *)
(* Python objects live in `heap` (a sequence of board objects, a reference *)
(* is an index into it); rows, columns and values are numbered from 0 as   *)
(* in the code, TLA+ sequences are indexed from 1.                         *)
(***************************************************************************)
EXTENDS Integers, Sequences, FiniteSets, TLC

VARIABLES
    numbers,    \* the caller's list of values handed to a Board constructor
    heap,       \* the Board objects allocated so far; a reference is an index
    board,      \* the caller's reference to its board (0 is None)
    ret,        \* what the last call returned or raised, with its arguments
    prep,       \* how many preparation steps the caller has made
    call        \* the activation of the method that is running, if any

vars == <<numbers, heap, board, ret, prep, call>>

---------------------------------------------------------------------------
(* Small helpers over sequences.                                           *)

Range(s) == {s[i] : i \in DOMAIN s}

SeqMax(s) == CHOOSE x \in Range(s) : \A y \in Range(s) : y <= x

SeqMin(s) == CHOOSE x \in Range(s) : \A y \in Range(s) : x <= y

(* a list and a dict built at once, as Python builds them *)
AsList(seq) == <<>> \o seq

AsDict(fn) == fn @@ <<>>

Zeros(n) == AsList([i \in 1..n |-> 0])

---------------------------------------------------------------------------
(* Cells and boards.                                                       *)

Cell(row, col, tile, value) ==
    [row |-> row, col |-> col, tile |-> tile, value |-> value]

NoBoard == [rank |-> 0, side_length |-> 0, size |-> 0, cells |-> <<>>]

NoCall == [op |-> "none", args |-> <<>>, raised |-> "none", value |-> 0]

Idle == [op |-> "none"]

(* The constructor's nested loops: row-major, the cell at (row, col) takes *)
(* the value at value_index = row * side_length + col.                     *)
ValueIndexTransposed(side_length, row, col) == col * side_length + row

ValueIndex(side_length, row, col) == row * side_length + col

MakeCellsTileByColumn(rank, side_length, values) ==
    AsList([k \in 1..(side_length * side_length) |->
        LET row == (k - 1) \div side_length
            col == (k - 1) % side_length
            tile == rank * (row \div rank) + (col % rank)
        IN  [row |-> row, col |-> col, tile |-> tile,
             value |-> values[row * side_length + col + 1]]])

MakeCells(rank, side_length, values) ==
    AsList([k \in 1..(side_length * side_length) |->
        LET row == (k - 1) \div side_length
            col == (k - 1) % side_length
            tile == rank * (row \div rank) + (col \div rank)
        IN  Cell(row, col, tile, values[ValueIndex(side_length, row, col) + 1])])

(* board.Board.__init__(values): the rank follows from the number of       *)
(* values; a result is [raised, board].                                    *)
RankOfSize(size) ==
    IF size = 16 THEN 2 ELSE IF size = 81 THEN 3 ELSE IF size = 256 THEN 4 ELSE 0

BoardInit(values) ==
    LET size == Len(values)
        rank == RankOfSize(size)
        side_length == rank * rank
    IN  IF rank = 0
        THEN [raised |-> "ValueError", board |-> NoBoard]
        ELSE IF SeqMax(values) > side_length \/ SeqMin(values) < 0
        THEN [raised |-> "ValueError", board |-> NoBoard]
        ELSE [raised |-> "none",
              board |-> [rank |-> rank, side_length |-> side_length,
                         size |-> size,
                         cells |-> MakeCells(rank, side_length, values)]]

(* Board.Board.__init__(rank, numbers) (legacy): `if numbers:` is false    *)
(* for None and for an empty list, and then the board is all zeros; the    *)
(* cells take their values by numbers.pop(0), which empties a list the     *)
(* caller supplied.  A result is [raised, board, numbers] where numbers is *)
(* the caller's list after the call.                                       *)
LegacyBoardInit(rank, nums) ==
    LET side_length == rank * rank
        size == side_length * side_length
    IN  IF rank \notin {2, 3, 4}
        THEN [raised |-> "ValueError", board |-> NoBoard, numbers |-> nums]
        ELSE IF Len(nums) # 0
        THEN IF Len(nums) # size
             THEN [raised |-> "ValueError", board |-> NoBoard, numbers |-> nums]
             ELSE IF SeqMax(nums) > side_length \/ SeqMin(nums) < 0
             THEN [raised |-> "ValueError", board |-> NoBoard, numbers |-> nums]
             ELSE [raised |-> "none",
                   board |-> [rank |-> rank, side_length |-> side_length,
                              size |-> size,
                              cells |-> MakeCells(rank, side_length, nums)],
                   numbers |-> <<>>]
        ELSE [raised |-> "none",
              board |-> [rank |-> rank, side_length |-> side_length,
                         size |-> size,
                         cells |-> MakeCells(rank, side_length, Zeros(size))],
              numbers |-> nums]

(* Board.values(): the cell values, left to right, top to bottom.          *)
Values(b) == AsList([i \in 1..Len(b.cells) |-> b.cells[i].value])

(* Board.copy() of either class: a new board from the list of values.      *)
Copy(b) == BoardInit(Values(b)).board

LegacyCopy(b) == LegacyBoardInit(b.rank, Values(b)).board

---------------------------------------------------------------------------
(* The seed grids of the generators.                                       *)

StartValues4 ==
    << <<1, 2, 3, 4,  3, 4, 1, 2,  2, 3, 4, 1,  4, 1, 2, 3>>,
       <<1, 3, 2, 4,  4, 2, 3, 1,  2, 4, 1, 3,  3, 1, 4, 2>>,
       <<1, 4, 2, 3,  3, 2, 4, 1,  2, 3, 1, 4,  4, 1, 3, 2>> >>


(* the first 9x9 seed *)
StartValues9 ==
    <<1, 2, 3, 4, 5, 6, 7, 8, 9,  4, 5, 6, 7, 8, 9, 1, 2, 3,  7, 8, 9, 1, 2, 3, 4, 5, 6,
      2, 1, 4, 3, 6, 5, 8, 9, 7,  3, 6, 5, 8, 9, 7, 2, 1, 4,  8, 9, 7, 2, 1, 4, 3, 6, 5,
      5, 3, 1, 6, 4, 2, 9, 7, 8,  6, 4, 2, 9, 7, 8, 5, 3, 1,  9, 7, 8, 5, 3, 1, 6, 4, 2>>

---------------------------------------------------------------------------
(* Board construction: the caller's list is drawn from the well-formed and *)
(* the ill-formed lists around a few base lists.                           *)

MaxPad == 1

BaseInputs == {<<>>, Zeros(16), StartValues4[1], Zeros(81), Zeros(256)}

InputValues == {-1, 0, 1, 4, 5, 9, 10, 16, 17}

(* base with element i (if any) replaced by v, then cut or padded by delta *)
Perturb(base, i, v, delta) ==
    LET s1 == IF i = 0 THEN base ELSE [base EXCEPT ![i] = v]
    IN  IF delta < 0
        THEN IF Len(s1) + delta < 0 THEN <<>> ELSE SubSeq(s1, 1, Len(s1) + delta)
        ELSE s1 \o Zeros(delta)

InitBoard ==
    /\ \E base \in BaseInputs : \E i \in 0..Len(base) : \E v \in InputValues :
       \E delta \in (0 - MaxPad)..MaxPad :
            numbers = Perturb(base, i, v, delta)
    /\ heap = <<>>
    /\ board = 0
    /\ ret = NoCall
    /\ prep = 0
    /\ call = Idle

(* board = Board(numbers)   (board.py) *)
NewBoard ==
    /\ board = 0
    /\ ret.op = "none"
    /\ \E r \in {BoardInit(numbers)} :
           /\ ret' = [op |-> "Board", args |-> <<numbers>>, raised |-> r.raised,
                      value |-> IF r.raised = "none" THEN Len(heap) + 1 ELSE 0]
           /\ heap' = IF r.raised = "none" THEN Append(heap, r.board) ELSE heap
           /\ board' = IF r.raised = "none" THEN Len(heap) + 1 ELSE 0
    /\ UNCHANGED <<numbers, prep, call>>

(* board = Board(rank, numbers)   (Board.py) *)
LegacyNewBoard(rank) ==
    /\ board = 0
    /\ ret.op = "none"
    /\ \E r \in {LegacyBoardInit(rank, numbers)} :
           /\ ret' = [op |-> "LegacyBoard", args |-> <<rank, numbers>>,
                      raised |-> r.raised,
                      value |-> IF r.raised = "none" THEN Len(heap) + 1 ELSE 0]
           /\ heap' = IF r.raised = "none" THEN Append(heap, r.board) ELSE heap
           /\ board' = IF r.raised = "none" THEN Len(heap) + 1 ELSE 0
           /\ numbers' = r.numbers
    /\ UNCHANGED <<prep, call>>

(* board.copy()   (board.py) *)
CopyBoard ==
    /\ board # 0
    /\ ret.op = "Board"
    /\ ret' = [op |-> "copy", args |-> <<board>>, raised |-> "none",
               value |-> Len(heap) + 1]
    /\ heap' = Append(heap, Copy(heap[board]))
    /\ UNCHANGED <<numbers, board, prep, call>>

(* board.copy()   (Board.py) *)
LegacyCopyBoard ==
    /\ board # 0
    /\ ret.op = "LegacyBoard"
    /\ ret' = [op |-> "legacy_copy", args |-> <<board>>, raised |-> "none",
               value |-> Len(heap) + 1]
    /\ heap' = Append(heap, LegacyCopy(heap[board]))
    /\ UNCHANGED <<numbers, board, prep, call>>

NextBoard ==
    \/ NewBoard
    \/ \E rank \in {2, 3, 4} : LegacyNewBoard(rank)
    \/ CopyBoard
    \/ LegacyCopyBoard

SpecBoard == InitBoard /\ [][NextBoard]_vars

---------------------------------------------------------------------------
(* Claims about construction.                                              *)

WellFormed(values, side_length) ==
    /\ Len(values) = side_length * side_length
    /\ \A i \in DOMAIN values : values[i] \in 0..side_length

(* C9: construction succeeds exactly when the number of values equals the  *)
(* size (16, 81 or 256 for board.Board, rank^4 for the legacy Board) and   *)
(* every value lies in [0, side]; every other list, the empty one          *)
(* included, raises ValueError and produces no board.                      *)
C9_ConstructionValidates ==
    /\ ret.op = "Board" =>
         /\ ret.raised = "none" <=> \E side \in {4, 9, 16} : WellFormed(ret.args[1], side)
         /\ ret.raised # "none" => ret.raised = "ValueError" /\ board = 0 /\ heap = <<>>
    /\ ret.op = "LegacyBoard" =>
         /\ ret.raised = "none" <=> WellFormed(ret.args[2], ret.args[1] * ret.args[1])
         /\ ret.raised # "none" => ret.raised = "ValueError" /\ board = 0 /\ heap = <<>>

(* C10: Board(v).values() is v element for element, so is                  *)
(* Board(v).copy().values(), and the cell at index row*side+col carries    *)
(* v[row*side+col].                                                        *)
C10_ValuesRoundTrip ==
    /\ (ret.op = "Board" /\ ret.raised = "none") =>
         LET b == heap[ret.value]
         IN  /\ Values(b) = numbers
             /\ \A k \in DOMAIN b.cells :
                    /\ k - 1 = b.cells[k].row * b.side_length + b.cells[k].col
                    /\ b.cells[k].value = numbers[k]
    /\ ret.op = "copy" => Values(heap[ret.value]) = numbers

C10_Witness ==
    /\ ret.op = "copy"
    /\ Len(numbers) = 16
    /\ \E i, j \in DOMAIN numbers : numbers[i] # numbers[j]

---------------------------------------------------------------------------
(* The indices of a board: rows[r], columns[c] and tiles[t] list the cells *)
(* (by their index in cells) in the order the constructor appended them.   *)

CellIndices(b) == AsList([i \in 1..Len(b.cells) |-> i])

Rows(b) ==
    [r \in 1..b.side_length |->
        SelectSeq(CellIndices(b), LAMBDA i : b.cells[i].row = r - 1)]

Columns(b) ==
    [c \in 1..b.side_length |->
        SelectSeq(CellIndices(b), LAMBDA i : b.cells[i].col = c - 1)]

Tiles(b) ==
    [t \in 1..b.side_length |->
        SelectSeq(CellIndices(b), LAMBDA i : b.cells[i].tile = t - 1)]

(* get_context(cell): the cells of its row, column and tile, except itself *)
get_context(rows, columns, tiles, cell, i) ==
    (Range(rows[cell.row + 1]) \cup Range(columns[cell.col + 1])
        \cup Range(tiles[cell.tile + 1])) \ {i}

Context(b, i) == get_context(Rows(b), Columns(b), Tiles(b), b.cells[i], i)

---------------------------------------------------------------------------
(* The swaps of Board (the same code in board.py and Board.py).            *)

(* the loop `for k in range(len(line2))`: the k-th cells of the two lines  *)
(* exchange their values                                                   *)
RECURSIVE SwapLoop(_, _, _, _)
SwapLoop(cells, line1, line2, k) ==
    IF k > Len(line2) THEN cells
    ELSE SwapLoop([cells EXCEPT ![line2[k]].value = cells[line1[k]].value,
                                ![line1[k]].value = cells[line2[k]].value],
                  line1, line2, k + 1)

(* the guard of swap_row_values and swap_column_values *)
SwapRefusedAlways(b, i1, i2, allow_different_tiles) ==
    (i1 \div b.rank) # (i2 \div b.rank)

SwapRefused(b, i1, i2, allow_different_tiles) ==
    ~allow_different_tiles /\ (i1 \div b.rank) # (i2 \div b.rank)

swap_row_values(b, row1, row2, allow_different_tiles) ==
    IF SwapRefused(b, row1, row2, allow_different_tiles)
    THEN [raised |-> "ValueError", board |-> b]
    ELSE [raised |-> "none",
          board |-> [b EXCEPT !.cells =
                        SwapLoop(b.cells, Rows(b)[row1 + 1], Rows(b)[row2 + 1], 1)]]

swap_column_values(b, col1, col2, allow_different_tiles) ==
    IF SwapRefused(b, col1, col2, allow_different_tiles)
    THEN [raised |-> "ValueError", board |-> b]
    ELSE [raised |-> "none",
          board |-> [b EXCEPT !.cells =
                        SwapLoop(b.cells, Columns(b)[col1 + 1], Columns(b)[col2 + 1], 1)]]

RECURSIVE StackLoopUnscaled(_, _, _, _)
StackLoopUnscaled(b, stack1, stack2, offset) ==
    IF offset >= b.rank THEN b
    ELSE StackLoopUnscaled(swap_column_values(b, stack1 + offset,
                                              stack2 + offset, TRUE).board,
                           stack1, stack2, offset + 1)

RECURSIVE StackLoop(_, _, _, _)
StackLoop(b, stack1, stack2, offset) ==
    IF offset >= b.rank THEN b
    ELSE StackLoop(swap_column_values(b, stack1 * b.rank + offset,
                                      stack2 * b.rank + offset, TRUE).board,
                   stack1, stack2, offset + 1)

swap_stack_values(b, stack1, stack2) ==
    [raised |-> "none", board |-> StackLoop(b, stack1, stack2, 0)]

RECURSIVE BandLoop(_, _, _, _)
BandLoop(b, band1, band2, offset) ==
    IF offset >= b.rank THEN b
    ELSE BandLoop(swap_row_values(b, band1 * b.rank + offset,
                                  band2 * b.rank + offset, TRUE).board,
                  band1, band2, offset + 1)

swap_band_values(b, band1, band2) ==
    [raised |-> "none", board |-> BandLoop(b, band1, band2, 0)]

---------------------------------------------------------------------------
(* What the claims mean by a complete valid board, stated on the list of   *)
(* values alone: every row, column and tile holds each of 1..side once.    *)

RowPositions(side, r) == {r * side + c + 1 : c \in 0..(side - 1)}

ColPositions(side, c) == {r * side + c + 1 : r \in 0..(side - 1)}

TilePositions(rank, t) ==
    {((t \div rank) * rank + dr) * (rank * rank) + ((t % rank) * rank + dc) + 1 :
        dr \in 0..(rank - 1), dc \in 0..(rank - 1)}

Units(rank) ==
    LET side == rank * rank
    IN  {RowPositions(side, r) : r \in 0..(side - 1)}
        \cup {ColPositions(side, c) : c \in 0..(side - 1)}
        \cup {TilePositions(rank, t) : t \in 0..(side - 1)}

CompleteAndValid(values, rank) ==
    /\ Len(values) = rank * rank * rank * rank
    /\ \A u \in Units(rank) : {values[i] : i \in u} = 1..(rank * rank)

---------------------------------------------------------------------------
(* Swaps called on a board that starts as one of the seed solutions.       *)

MaxCross == 1

InitSwap ==
    /\ \E k \in DOMAIN StartValues4 : heap = <<BoardInit(StartValues4[k]).board>>
    /\ board = 1
    /\ numbers = <<>>
    /\ ret = NoCall
    /\ prep = 0
    /\ call = Idle

CrossesTiles(b, i1, i2) == (i1 \div b.rank) # (i2 \div b.rank)

(* board.swap_row_values(row1, row2, allow_different_tiles) *)
SwapRows(row1, row2, allow) ==
    /\ (allow /\ CrossesTiles(heap[board], row1, row2)) => prep < MaxCross
    /\ \E r \in {swap_row_values(heap[board], row1, row2, allow)} :
           /\ heap' = [heap EXCEPT ![board] = r.board]
           /\ ret' = [op |-> "swap_row_values",
                      args |-> <<row1, row2, allow, Values(heap[board])>>,
                      raised |-> r.raised, value |-> 0]
           /\ prep' = IF r.raised = "none" /\ CrossesTiles(heap[board], row1, row2)
                      THEN prep + 1 ELSE prep
    /\ UNCHANGED <<numbers, board, call>>

(* board.swap_column_values(col1, col2, allow_different_tiles) *)
SwapColumns(col1, col2, allow) ==
    /\ (allow /\ CrossesTiles(heap[board], col1, col2)) => prep < MaxCross
    /\ \E r \in {swap_column_values(heap[board], col1, col2, allow)} :
           /\ heap' = [heap EXCEPT ![board] = r.board]
           /\ ret' = [op |-> "swap_column_values",
                      args |-> <<col1, col2, allow, Values(heap[board])>>,
                      raised |-> r.raised, value |-> 0]
           /\ prep' = IF r.raised = "none" /\ CrossesTiles(heap[board], col1, col2)
                      THEN prep + 1 ELSE prep
    /\ UNCHANGED <<numbers, board, call>>

(* board.swap_stack_values(stack1, stack2) *)
SwapStacks(stack1, stack2) ==
    /\ \E r \in {swap_stack_values(heap[board], stack1, stack2)} :
           /\ heap' = [heap EXCEPT ![board] = r.board]
           /\ ret' = [op |-> "swap_stack_values",
                      args |-> <<stack1, stack2, TRUE, Values(heap[board])>>,
                      raised |-> r.raised, value |-> 0]
    /\ UNCHANGED <<numbers, board, prep, call>>

(* board.swap_band_values(band1, band2) *)
SwapBands(band1, band2) ==
    /\ \E r \in {swap_band_values(heap[board], band1, band2)} :
           /\ heap' = [heap EXCEPT ![board] = r.board]
           /\ ret' = [op |-> "swap_band_values",
                      args |-> <<band1, band2, TRUE, Values(heap[board])>>,
                      raised |-> r.raised, value |-> 0]
    /\ UNCHANGED <<numbers, board, prep, call>>

NextSwap ==
    \/ \E row1, row2 \in 0..(heap[board].side_length - 1) : \E allow \in BOOLEAN :
            SwapRows(row1, row2, allow)
    \/ \E col1, col2 \in 0..(heap[board].side_length - 1) : \E allow \in BOOLEAN :
            SwapColumns(col1, col2, allow)
    \/ \E stack1, stack2 \in 0..(heap[board].rank - 1) : SwapStacks(stack1, stack2)
    \/ \E band1, band2 \in 0..(heap[board].rank - 1) : SwapBands(band1, band2)

SpecSwap == InitSwap /\ [][NextSwap]_vars

(* the list `before` with rows r1 and r2 exchanged / columns c1 and c2 *)
RowsExchanged(before, side, r1, r2) ==
    [i \in DOMAIN before |->
        LET r == (i - 1) \div side
            c == (i - 1) % side
        IN  IF r = r1 THEN before[r2 * side + c + 1]
            ELSE IF r = r2 THEN before[r1 * side + c + 1]
            ELSE before[i]]

ColsExchanged(before, side, c1, c2) ==
    [i \in DOMAIN before |->
        LET r == (i - 1) \div side
            c == (i - 1) % side
        IN  IF c = c1 THEN before[r * side + c2 + 1]
            ELSE IF c = c2 THEN before[r * side + c1 + 1]
            ELSE before[i]]

(* C6: from a complete valid board, after any sequence of row swaps within *)
(* a band, column swaps within a stack, stack swaps and band swaps, the    *)
(* board is again complete and valid.                                      *)
C6_SwapsPreserveSolution ==
    prep = 0 => CompleteAndValid(Values(heap[board]), heap[board].rank)

C6_Witness ==
    /\ prep = 0
    /\ ret.op = "swap_stack_values"
    /\ ret.args[1] # ret.args[2]
    /\ \A k \in DOMAIN StartValues4 : Values(heap[board]) # StartValues4[k]

(* C8: a row or column swap across bands/stacks without                    *)
(* allow_different_tiles raises ValueError and leaves every cell value as  *)
(* it was; with allow_different_tiles=True the same call swaps.            *)
C8_CrossTileSwap ==
    LET b == heap[board]
        crossing == ret.op \in {"swap_row_values", "swap_column_values"}
                    /\ CrossesTiles(b, ret.args[1], ret.args[2])
    IN  /\ (crossing /\ ~ret.args[3]) =>
            /\ ret.raised = "ValueError"
            /\ Values(b) = ret.args[4]
        /\ (crossing /\ ret.args[3]) =>
            /\ ret.raised = "none"
            /\ ret.op = "swap_row_values" =>
                 Values(b) = RowsExchanged(ret.args[4], b.side_length,
                                           ret.args[1], ret.args[2])
            /\ ret.op = "swap_column_values" =>
                 Values(b) = ColsExchanged(ret.args[4], b.side_length,
                                           ret.args[1], ret.args[2])

C8_Witness ==
    /\ ret.op = "swap_row_values"
    /\ CrossesTiles(heap[board], ret.args[1], ret.args[2])
    /\ ret.args[3]
    /\ ret.raised = "none"
    /\ Values(heap[board]) # ret.args[4]

---------------------------------------------------------------------------
(* Generator.randomize (generator.py and, with a guard before the loop,    *)
(* Generator.py).                                                          *)

MaxIterations == 5

MaxIterations9 == 2

(* random_two_in_rank(): the first two elements of a shuffle of range(rank)*)
random_two_in_rank(rank) ==
    {<<p[0], p[1]>> : p \in Permutations(0..(rank - 1))}

(* random_tile_base(): randrange(0, rank) * rank *)
random_tile_base_unscaled(rank) == {k : k \in 0..(rank - 1)}

random_tile_base(rank) == {k * rank : k \in 0..(rank - 1)}

get_filled_cells(b) == SelectSeq(CellIndices(b), LAMBDA i : b.cells[i].value # 0)

get_empty_cells(b) == SelectSeq(CellIndices(b), LAMBDA i : b.cells[i].value = 0)

InitRandomize ==
    /\ \E seed \in Range(StartValues4) \cup {StartValues9} :
            heap = <<BoardInit(seed).board>>
    /\ board = 1
    /\ numbers = <<>>
    /\ ret = NoCall
    /\ prep = 0
    /\ call = Idle

IterationChoices(b) ==
    IF b.rank = 2 THEN 0..MaxIterations ELSE 0..MaxIterations9

(* generator.Generator.randomize(iterations) is entered *)
RandomizeStart(iterations) ==
    /\ call = Idle
    /\ ret.op = "none"
    /\ call' = [op |-> "randomize", iterations |-> iterations, x |-> 0]
    /\ UNCHANGED <<numbers, heap, board, ret, prep>>

(* Generator.Generator.randomize(iterations) is entered: a partial board   *)
(* is refused                                                              *)
LegacyRandomizeStart(iterations) ==
    /\ call = Idle
    /\ ret.op = "none"
    /\ IF Len(get_filled_cells(heap[board])) # heap[board].size
       THEN /\ ret' = [op |-> "randomize", args |-> <<iterations>>,
                       raised |-> "ValueError", value |-> 0]
            /\ call' = Idle
       ELSE /\ call' = [op |-> "legacy_randomize", iterations |-> iterations, x |-> 0]
            /\ ret' = ret
    /\ UNCHANGED <<numbers, heap, board, prep>>

(* the swap one iteration issues, as [op, args, result] *)
IterationSwaps(b) ==
    {[op |-> "swap_row_values", args |-> <<base + two[1], base + two[2]>>,
      result |-> swap_row_values(b, base + two[1], base + two[2], FALSE)] :
        two \in random_two_in_rank(b.rank), base \in random_tile_base(b.rank)}
    \cup
    {[op |-> "swap_column_values", args |-> <<base + two[1], base + two[2]>>,
      result |-> swap_column_values(b, base + two[1], base + two[2], FALSE)] :
        two \in random_two_in_rank(b.rank), base \in random_tile_base(b.rank)}
    \cup
    {[op |-> "swap_stack_values", args |-> two,
      result |-> swap_stack_values(b, two[1], two[2])] :
        two \in random_two_in_rank(b.rank)}
    \cup
    {[op |-> "swap_band_values", args |-> two,
      result |-> swap_band_values(b, two[1], two[2])] :
        two \in random_two_in_rank(b.rank)}

(* one iteration of the loop; an exception of the swap leaves randomize *)
RandomizeIteration ==
    /\ call.op \in {"randomize", "legacy_randomize"}
    /\ call.x < call.iterations
    /\ \E sw \in IterationSwaps(heap[board]) :
        /\ heap' = [heap EXCEPT ![board] = sw.result.board]
        /\ ret' = [op |-> sw.op, args |-> sw.args, raised |-> sw.result.raised,
                   value |-> 0]
        /\ call' = IF sw.result.raised = "none"
                   THEN [call EXCEPT !.x = call.x + 1]
                   ELSE Idle
    /\ UNCHANGED <<numbers, board, prep>>

(* the loop is over: randomize returns None *)
RandomizeReturn ==
    /\ call.op \in {"randomize", "legacy_randomize"}
    /\ call.x >= call.iterations
    /\ ret' = [op |-> "randomize", args |-> <<call.iterations>>, raised |-> "none",
               value |-> 0]
    /\ call' = Idle
    /\ UNCHANGED <<numbers, heap, board, prep>>

NextRandomize ==
    \/ \E iterations \in IterationChoices(heap[board]) : RandomizeStart(iterations)
    \/ \E iterations \in IterationChoices(heap[board]) : LegacyRandomizeStart(iterations)
    \/ RandomizeIteration
    \/ RandomizeReturn

SpecRandomize == InitRandomize /\ [][NextRandomize]_vars

(* C7: randomize on a complete valid solution never raises; every row or   *)
(* column swap it issues uses two distinct indices of one band/stack       *)
(* inside [0, side), every band or stack swap two distinct indices in      *)
(* [0, rank), and the board is a complete valid solution after every       *)
(* iteration.                                                              *)
C7_RandomizeSafe ==
    LET b == heap[board]
    IN  /\ ret.raised = "none"
        /\ ret.op \in {"swap_row_values", "swap_column_values"} =>
            /\ ret.args[1] # ret.args[2]
            /\ ret.args[1] \div b.rank = ret.args[2] \div b.rank
            /\ ret.args[1] \in 0..(b.side_length - 1)
            /\ ret.args[2] \in 0..(b.side_length - 1)
        /\ ret.op \in {"swap_stack_values", "swap_band_values"} =>
            /\ ret.args[1] # ret.args[2]
            /\ ret.args[1] \in 0..(b.rank - 1)
            /\ ret.args[2] \in 0..(b.rank - 1)
        /\ CompleteAndValid(Values(b), b.rank)

C7_Witness ==
    /\ ret.op = "randomize"
    /\ ret.raised = "none"
    /\ ret.args[1] >= 2
    /\ Values(heap[board]) \notin Range(StartValues4) \cup {StartValues9}

---------------------------------------------------------------------------
(* norvig_solver.Solver.  A string is a sequence of one-character strings, *)
(* a square such as 'Aa' is the string <<"A", "a">>, a dict is a function, *)
(* and the contradiction marker {} is the function with no key.            *)

all_digits == <<"1", "2", "3", "4", "5", "6", "7", "8", "9",
                "A", "B", "C", "D", "E", "F", "G">>

all_rows == <<"A", "B", "C", "D", "E", "F", "G", "H",
              "I", "J", "K", "L", "M", "N", "O", "P">>

all_cols == <<"a", "b", "c", "d", "e", "f", "g", "h",
              "i", "j", "k", "l", "m", "n", "o", "p">>

EmptyDict == <<>>

IsEmptyDict(dict) == DOMAIN dict = {}

(* d in string *)
In(d, string) == \E i \in DOMAIN string : string[i] = d

(* string.replace(d, '') *)
Remove(string, d) == SelectSeq(string, LAMBDA c : c # d)

(* string.index(c) (from 0); -1 stands for the ValueError of a miss *)
IndexOf(string, c) ==
    IF In(c, string) THEN (CHOOSE i \in DOMAIN string :
                              string[i] = c /\ \A j \in 1..(i - 1) : string[j] # c) - 1
    ELSE -1

(* sum(lists, []) *)
RECURSIVE Concat(_)
Concat(lists) == IF Len(lists) = 0 THEN <<>> ELSE Head(lists) \o Concat(Tail(lists))

(* cross(aa, bb) = [a + b for a in aa for b in bb] *)
cross(aa, bb) ==
    AsList([k \in 1..(Len(aa) * Len(bb)) |->
        <<aa[((k - 1) \div Len(bb)) + 1], bb[((k - 1) % Len(bb)) + 1]>>])

(* rank_groups(indices, step, end) *)
rank_groups(indices, step, end) ==
    AsList([g \in 1..((end + step - 1) \div step) |->
        SubSeq(indices, (g - 1) * step + 1,
               IF g * step < Len(indices) THEN g * step ELSE Len(indices))])

(* Cell.__str__ *)
CellStr(value) ==
    IF value = 0 THEN "-"
    ELSE IF value < 10 THEN all_digits[value]
    ELSE all_rows[value - 9]

(* The order in which `for s2 in self.peers[s]` visits a set of strings is *)
(* that of the interpreter's string hashes, which differ from run to run:  *)
(* the orders modelled are the ascending and the descending one.           *)
PeerOrders == {"ascending", "descending"}

Reverse(seq) == AsList([i \in 1..Len(seq) |-> seq[Len(seq) + 1 - i]])

SetOrder(squares, set, order) ==
    LET asc == SelectSeq(squares, LAMBDA q : q \in set)
    IN  IF order = "ascending" THEN asc ELSE Reverse(asc)

(* Solver.__init__ up to self.peers: the structure of the puzzle *)
SolverStructure(b, order) ==
    LET digits == SubSeq(all_digits, 1, b.side_length)
        rows == SubSeq(all_rows, 1, b.side_length)
        cols == SubSeq(all_cols, 1, b.side_length)
        squares == cross(rows, cols)
        row_groups == rank_groups(rows, b.rank, b.side_length)
        col_groups == rank_groups(cols, b.rank, b.side_length)
        unit_list ==
            [i \in 1..Len(cols) |-> cross(rows, <<cols[i]>>)]
            \o [i \in 1..Len(rows) |-> cross(<<rows[i]>>, cols)]
            \o [k \in 1..(Len(row_groups) * Len(col_groups)) |->
                    cross(row_groups[((k - 1) \div Len(col_groups)) + 1],
                          col_groups[((k - 1) % Len(col_groups)) + 1])]
        units == AsDict([s \in Range(squares) |->
                        SelectSeq(unit_list, LAMBDA u : s \in Range(u))])
        peers == AsDict([s \in Range(squares) |-> Range(Concat(units[s])) \ {s}])
    IN  [digits |-> digits, rows |-> rows, cols |-> cols, squares |-> squares,
         unit_list |-> unit_list, units |-> units, peers |-> peers,
         peer_order |->
            AsDict([s \in Range(squares) |-> SetOrder(squares, peers[s], order)])]

(* grid_values(grid): [raised, dict] *)
grid_values(self, grid) ==
    LET chars == SelectSeq(grid, LAMBDA c : In(c, self.digits) \/ c \in {"0", ".", "-"})
    IN  IF Len(chars) # Len(self.squares)
        THEN [raised |-> "ValueError", dict |-> EmptyDict]
        ELSE [raised |-> "none",
              dict |-> AsDict([s \in Range(self.squares) |->
                                chars[IndexOf(self.squares, s) + 1]])]

(* parse_grid, assign, eliminate and search call each other to a depth     *)
(* that grows with the eliminations an assignment sets off and with the    *)
(* squares the search has guessed.  The run of one call of parse_grid or   *)
(* of search is a record m holding where that run stands:                  *)
(*   values   the dict the calls work on, {} once one of them returned {}  *)
(*            (every caller answers a {} by returning {} itself);          *)
(*   tasks    the calls eliminate(values, s, d), the rounds k of the loop  *)
(*            over self.units[s] and the returns of eliminate's calls of   *)
(*            assign still to be made, in the order the code makes them,   *)
(*            the head being the next;                                     *)
(*   given, k the dict of grid_values and the item parse_grid is at;       *)
(*   choices  one entry per search() that is trying a value: the dict it   *)
(*            was called with, its square s and the index k of the         *)
(*            candidate tried, innermost first;                            *)
(*   tried    the candidates assigned so far;                              *)
(*   done     the call has returned, values being what it returned.        *)

EliminateTask(s, d) == [op |-> "eliminate", s |-> s, d |-> d, k |-> 0]

UnitTask(s, d, k) == [op |-> "unit", s |-> s, d |-> d, k |-> k]

(* the return of the call assign(values, s, d) that eliminate made *)
ReturnTask(s, d) == [op |-> "return", s |-> s, d |-> d, k |-> 0]

Contradiction(m) == [m EXCEPT !.values = EmptyDict, !.tasks = <<>>]

(* assign(values, s, d): the calls eliminate(values, s, d2) for d2 in      *)
(* other_values                                                            *)
AssignTasksButLast(values, s, d) ==
    LET other_values == Remove(values[s], d)
    IN  AsList([i \in 1..(Len(other_values) - 1) |-> EliminateTask(s, other_values[i])])

AssignTasks(values, s, d) ==
    LET other_values == Remove(values[s], d)
    IN  AsList([i \in 1..Len(other_values) |-> EliminateTask(s, other_values[i])])

(* eliminate(values, s, d) up to the calls it makes: rule (1) on the peers *)
(* of s, then the loop of rule (2) over the units of s                     *)
eliminateWithoutPeers(self, m, s, d) ==
    LET v1 == [m.values EXCEPT ![s] = Remove(@, d)]
    IN  CASE ~In(d, m.values[s]) -> [m EXCEPT !.tasks = Tail(@)]
          [] Len(v1[s]) = 0 -> Contradiction(m)
          [] OTHER ->
                [m EXCEPT
                    !.values = v1,
                    !.tasks = [k \in 1..Len(self.units[s]) |-> UnitTask(s, d, k)]
                              \o Tail(@)]

eliminateUnchecked(self, m, s, d) ==
    LET v1 == [m.values EXCEPT ![s] = Remove(@, d)]
        peer_seq == self.peer_order[s]
    IN  CASE ~In(d, m.values[s]) -> [m EXCEPT !.tasks = Tail(@)]
          [] OTHER ->
                [m EXCEPT
                    !.values = v1,
                    !.tasks =
                        (IF Len(v1[s]) = 1
                         THEN [i \in 1..Len(peer_seq) |->
                                    EliminateTask(peer_seq[i], v1[s][1])]
                         ELSE <<>>)
                        \o [k \in 1..Len(self.units[s]) |-> UnitTask(s, d, k)]
                        \o Tail(@)]

eliminate(self, m, s, d) ==
    LET v1 == [m.values EXCEPT ![s] = Remove(@, d)]
        peer_seq == self.peer_order[s]
    IN  CASE ~In(d, m.values[s]) -> [m EXCEPT !.tasks = Tail(@)]
          [] Len(v1[s]) = 0 -> Contradiction(m)
          [] OTHER ->
                [m EXCEPT
                    !.values = v1,
                    !.tasks =
                        (IF Len(v1[s]) = 1
                         THEN [i \in 1..Len(peer_seq) |->
                                    EliminateTask(peer_seq[i], v1[s][1])]
                         ELSE <<>>)
                        \o [k \in 1..Len(self.units[s]) |-> UnitTask(s, d, k)]
                        \o Tail(@)]

(* for u in self.units[s]: the places left for d in the k-th unit *)
UnitStep(self, m, s, d, k) ==
    LET places == SelectSeq(self.units[s][k], LAMBDA q : In(d, m.values[q]))
    IN  CASE Len(places) = 0 -> Contradiction(m)
          [] Len(places) = 1 ->
                [m EXCEPT !.tasks = AssignTasks(m.values, places[1], d)
                                    \o <<ReturnTask(places[1], d)>> \o Tail(@)]
          [] OTHER -> [m EXCEPT !.tasks = Tail(@)]

(* the loop of parse_grid, between two assignments: return {} after a      *)
(* failed one, values after the last item, else go on with item k          *)
ParseStepLenient(self, m) ==
    LET s == self.squares[m.k]
    IN  CASE IsEmptyDict(m.values) ->
                [m EXCEPT !.values = AsDict([q \in Range(self.squares) |-> self.digits])]
          [] m.k > Len(self.squares) -> [m EXCEPT !.done = TRUE]
          [] In(m.given[s], self.digits) ->
                [m EXCEPT !.tasks = AssignTasks(m.values, s, m.given[s]), !.k = @ + 1]
          [] OTHER -> [m EXCEPT !.k = @ + 1]

ParseStep(self, m) ==
    LET s == self.squares[m.k]
    IN  CASE IsEmptyDict(m.values) -> [m EXCEPT !.done = TRUE]
          [] m.k > Len(self.squares) -> [m EXCEPT !.done = TRUE]
          [] In(m.given[s], self.digits) ->
                [m EXCEPT !.tasks = AssignTasks(m.values, s, m.given[s]), !.k = @ + 1]
          [] OTHER -> [m EXCEPT !.k = @ + 1]

(* min((len(values[s]), s) for s in squares if len(values[s]) > 1): the     *)
(* fewest candidates, then the least square; self.squares is in ascending  *)
(* string order, so the least square is the first one.                     *)
MinSquareLast(self, values) ==
    LET open == SelectSeq(self.squares, LAMBDA q : Len(values[q]) > 1)
        n == CHOOSE c \in {Len(values[open[i]]) : i \in DOMAIN open} :
                \A i \in DOMAIN open : c <= Len(values[open[i]])
        least == SelectSeq(open, LAMBDA q : Len(values[q]) = n)
    IN  least[Len(least)]

MinSquare(self, values) ==
    LET open == SelectSeq(self.squares, LAMBDA q : Len(values[q]) > 1)
        n == CHOOSE c \in {Len(values[open[i]]) : i \in DOMAIN open} :
                \A i \in DOMAIN open : c <= Len(values[open[i]])
    IN  SelectSeq(open, LAMBDA q : Len(values[q]) = n)[1]

(* search(values) entered with m.values: {} makes the search that guessed  *)
(* last try its next candidate on a copy of its dict, or return {} when    *)
(* it has none left; a dict of single candidates is returned through every *)
(* search; any other dict has the first candidate of its best square tried *)
SearchStepWithoutTrial(self, m) ==
    IF ~IsEmptyDict(m.values)
          /\ \A i \in DOMAIN self.squares : Len(m.values[self.squares[i]]) = 1
    THEN [m EXCEPT !.done = TRUE]
    ELSE [m EXCEPT !.values = EmptyDict, !.done = TRUE]

SearchStep(self, m) ==
    LET top == Head(m.choices)
        ds == top.values[top.s]
        s == MinSquare(self, m.values)
    IN  CASE IsEmptyDict(m.values) /\ Len(m.choices) = 0 -> [m EXCEPT !.done = TRUE]
          [] IsEmptyDict(m.values) /\ top.k < Len(ds) ->
                [m EXCEPT !.values = top.values,
                          !.tasks = AssignTasks(top.values, top.s, ds[top.k + 1]),
                          !.choices = <<[top EXCEPT !.k = @ + 1]>> \o Tail(@),
                          !.tried = @ + 1]
          [] IsEmptyDict(m.values) -> [m EXCEPT !.choices = Tail(@)]
          [] \A i \in DOMAIN self.squares : Len(m.values[self.squares[i]]) = 1 ->
                [m EXCEPT !.done = TRUE]
          [] OTHER ->
                [m EXCEPT !.tasks = AssignTasks(m.values, s, m.values[s][1]),
                          !.choices = <<[values |-> m.values, s |-> s, k |-> 1]>> \o @,
                          !.tried = @ + 1]

(* what the run does next: the pending call at the head of the stack, or,  *)
(* the assignment being through, the step of parse_grid or of search       *)
Step(self, m) ==
    CASE Len(m.tasks) > 0 /\ Head(m.tasks).op = "eliminate" ->
            eliminate(self, m, Head(m.tasks).s, Head(m.tasks).d)
      [] Len(m.tasks) > 0 /\ Head(m.tasks).op = "unit" ->
            UnitStep(self, m, Head(m.tasks).s, Head(m.tasks).d, Head(m.tasks).k)
      [] Len(m.tasks) > 0 -> [m EXCEPT !.tasks = Tail(@)]
      [] m.phase = "parse_grid" -> ParseStep(self, m)
      [] OTHER -> SearchStep(self, m)

(* A run takes steps until it is done, at most 8^k of them, by eighths.    *)
MaxRounds == 4

RECURSIVE Run(_, _, _)
Run(self, m, k) ==
    LET m1 == Run(self, m, k - 1)
        m2 == Run(self, m1, k - 1)
        m3 == Run(self, m2, k - 1)
        m4 == Run(self, m3, k - 1)
        m5 == Run(self, m4, k - 1)
        m6 == Run(self, m5, k - 1)
        m7 == Run(self, m6, k - 1)
    IN  CASE m.done -> m
          [] k = 0 -> Step(self, m)
          [] m1.done -> m1
          [] m2.done -> m2
          [] m3.done -> m3
          [] m4.done -> m4
          [] m5.done -> m5
          [] m6.done -> m6
          [] m7.done -> m7
          [] OTHER -> Run(self, m7, k - 1)

(* the run of parse_grid(grid) as it starts: every square can be any digit *)
ParseRun(self, given) ==
    [phase |-> "parse_grid",
     values |-> AsDict([s \in Range(self.squares) |-> self.digits]),
     tasks |-> <<>>, given |-> given, k |-> 1,
     choices |-> <<>>, tried |-> 0, done |-> FALSE]

(* parse_grid(grid): [raised, values]; "unfinished" marks a run that was   *)
(* cut short by MaxRounds                                                  *)
parse_grid(self, grid) ==
    LET gv == grid_values(self, grid)
        m == Run(self, ParseRun(self, gv.dict), MaxRounds)
    IN  CASE gv.raised # "none" -> [raised |-> gv.raised, values |-> EmptyDict]
          [] ~m.done -> [raised |-> "unfinished", values |-> EmptyDict]
          [] OTHER -> [raised |-> "none", values |-> m.values]

(* board2values(board) *)
board2values(self, b) ==
    parse_grid(self, AsList([i \in 1..Len(b.cells) |-> CellStr(b.cells[i].value)]))

(* the run of search(values) as it starts *)
SearchRun(values) ==
    [phase |-> "search", values |-> values, tasks |-> <<>>,
     given |-> EmptyDict, k |-> 0,
     choices |-> <<>>, tried |-> 0, done |-> FALSE]

(* search(values): [values, tried, done] *)
search(self, values) ==
    LET m == Run(self, SearchRun(values), MaxRounds)
    IN  [values |-> m.values, tried |-> m.tried, done |-> m.done]

(* values2board(values): [raised, board]; a ValueError of index() or of    *)
(* Board() is caught and {} returned, which NoBoard stands for             *)
SolutionIndexFromZero(values, self, i) ==
    IndexOf(all_digits, values[self.squares[i]][1])

SolutionIndex(values, self, i) ==
    IndexOf(all_digits, values[self.squares[i]][1]) + 1

values2board(self, values) ==
    IF \E i \in DOMAIN self.squares : IndexOf(all_digits, values[self.squares[i]][1]) < 0
    THEN NoBoard
    ELSE BoardInit(AsList([i \in DOMAIN self.squares |->
                            SolutionIndex(values, self, i)])).board

(* Solver(board): [raised, self] with self.values and self.solution = {}   *)
NorvigSolver(b, order) ==
    LET structure == SolverStructure(b, order)
        parsed == board2values(structure, b)
    IN  [raised |-> parsed.raised, structure |-> structure, values |-> parsed.values]

(* Solver(board).can_solve(): [raised, value, solution, tried] *)
NorvigCanSolveResult(b, order) ==
    LET solver == NorvigSolver(b, order)
        found == search(solver.structure, solver.values)
    IN  IF solver.raised # "none"
        THEN [raised |-> solver.raised, value |-> FALSE, solution |-> NoBoard,
              tried |-> 0, parsed |-> FALSE]
        ELSE IF ~found.done
        THEN [raised |-> "unfinished", value |-> FALSE, solution |-> NoBoard,
              tried |-> found.tried, parsed |-> ~IsEmptyDict(solver.values)]
        ELSE IF ~IsEmptyDict(found.values)
        THEN [raised |-> "none", value |-> TRUE,
              solution |-> values2board(solver.structure, found.values),
              tried |-> found.tried, parsed |-> ~IsEmptyDict(solver.values)]
        ELSE [raised |-> "none", value |-> FALSE, solution |-> NoBoard,
              tried |-> found.tried, parsed |-> ~IsEmptyDict(solver.values)]

(* Solver(board).is_solution(): [raised, value]; self.values[s] on the     *)
(* dict {} is a KeyError                                                   *)
NorvigIsSolutionResult(b, order) ==
    LET solver == NorvigSolver(b, order)
    IN  IF solver.raised # "none" THEN [raised |-> solver.raised, value |-> FALSE]
        ELSE IF IsEmptyDict(solver.values) THEN [raised |-> "KeyError", value |-> FALSE]
        ELSE [raised |-> "none",
              value |-> \A i \in DOMAIN solver.structure.squares :
                            Len(solver.values[solver.structure.squares[i]]) = 1]

---------------------------------------------------------------------------
(* Solver.Solver, the brute-force solver, on a legacy Board.               *)

(* get_excluded(cell) and get_possibles(cell) *)
get_excludedWithSelf(b, i) ==
    {b.cells[c].value : c \in {c \in Context(b, i) \cup {i} : b.cells[c].value # 0}}

get_excluded(b, i) ==
    {b.cells[c].value : c \in {c \in Context(b, i) : b.cells[c].value # 0}}

get_possibles(b, i) == {v \in 1..b.side_length : v \notin get_excluded(b, i)}

(* Solver(board): the solver's board is a copy, allocated after the boards *)
(* of heap h; [heap, self]                                                 *)
BruteSolverAliased(h, ref) ==
    [heap |-> Append(h, LegacyCopy(h[ref])),
     self |-> [board |-> ref, empties |-> get_empty_cells(h[ref])]]

BruteSolver(h, ref) ==
    [heap |-> Append(h, LegacyCopy(h[ref])),
     self |-> [board |-> Len(h) + 1, empties |-> get_empty_cells(h[ref])]]

(* is_solution() of the brute-force solver, on its board b *)
BruteIsSolution(b) ==
    LET valid == 1..b.side_length
        holds(line) == {b.cells[line[k]].value : k \in DOMAIN line} = valid
    IN  /\ \A t \in DOMAIN Tiles(b) : holds(Tiles(b)[t])
        /\ \A r \in DOMAIN Rows(b) : holds(Rows(b)[r])
        /\ \A c \in DOMAIN Columns(b) : holds(Columns(b)[c])

(* one round of the while loop of can_solve() *)
BruteStepResetting(b, empties, index) ==
    LET current == empties[index + 1]
        possibles == get_possibles(b, current)
        untried == {val \in (b.cells[current].value + 1)..b.side_length :
                       val \in possibles}
    IN  IF untried # {}
        THEN [board |-> [b EXCEPT !.cells[current].value =
                            CHOOSE val \in untried : \A w \in untried : val <= w],
              index |-> index + 1]
        ELSE [board |-> [b EXCEPT !.cells[current].value = 0], index |-> index - 1]

BruteStep(b, empties, index) ==
    LET current == empties[index + 1]
        possibles == get_possibles(b, current)
        untried == {val \in (b.cells[current].value + 1)..b.side_length :
                       val \in possibles}
    IN  IF untried # {}
        THEN [board |-> [b EXCEPT !.cells[current].value =
                            CHOOSE val \in untried : \A w \in untried : val <= w],
              index |-> index + 1]
        ELSE [board |-> b, index |-> index - 1]

(* the while loop of can_solve(): [board, index] when it is left.  A round *)
(* raises a cell's value or steps back, so the loop ends within            *)
(* 2 * size * side rounds; they are run by eighths, at most 8^k of them.   *)
BruteRunning(at, empties) == -1 < at.index /\ at.index < Len(empties)

RECURSIVE BruteLoop(_, _, _)
BruteLoop(at, empties, k) ==
    LET a1 == BruteLoop(at, empties, k - 1)
        a2 == BruteLoop(a1, empties, k - 1)
        a3 == BruteLoop(a2, empties, k - 1)
        a4 == BruteLoop(a3, empties, k - 1)
        a5 == BruteLoop(a4, empties, k - 1)
        a6 == BruteLoop(a5, empties, k - 1)
        a7 == BruteLoop(a6, empties, k - 1)
    IN  CASE ~BruteRunning(at, empties) -> at
          [] k = 0 -> BruteStep(at.board, empties, at.index)
          [] ~BruteRunning(a1, empties) -> a1
          [] ~BruteRunning(a2, empties) -> a2
          [] ~BruteRunning(a3, empties) -> a3
          [] ~BruteRunning(a4, empties) -> a4
          [] ~BruteRunning(a5, empties) -> a5
          [] ~BruteRunning(a6, empties) -> a6
          [] ~BruteRunning(a7, empties) -> a7
          [] OTHER -> BruteLoop(a7, empties, k - 1)

(* can_solve(): [value, board], board being the solver's board afterwards *)
BruteCanSolveResult(b, empties) ==
    LET left == BruteLoop([board |-> b, index |-> 0], empties, MaxRounds)
    IN  [value |-> IF left.index < 0 THEN FALSE ELSE BruteIsSolution(left.board),
         board |-> left.board]

---------------------------------------------------------------------------
(* The solvers called on a board the caller has prepared: a seed with its  *)
(* first cells (left to right, top to bottom) cleared, all 16 for the      *)
(* empty board, and then possibly one cell overwritten.                    *)

MaxEdits == 1

Cleared(values, k) == AsList([i \in DOMAIN values |-> IF i <= k THEN 0 ELSE values[i]])

PreparedBoards ==
    {Cleared(seed, k) : seed \in Range(StartValues4), k \in 0..16}

Init ==
    /\ \E values \in PreparedBoards : heap = <<BoardInit(values).board>>
    /\ board = 1
    /\ numbers = <<>>
    /\ ret = NoCall
    /\ prep = 0
    /\ call = Idle

(* cell.value = v by the owner of the board *)
SetCell(i, v) ==
    /\ ret.op = "none"
    /\ prep < MaxEdits
    /\ heap[board].cells[i].value # v
    /\ heap' = [heap EXCEPT ![board].cells[i].value = v]
    /\ prep' = prep + 1
    /\ UNCHANGED <<numbers, board, ret, call>>

(* norvig_solver.Solver(board).can_solve() *)
NorvigCanSolve(order) ==
    /\ ret.op = "none"
    /\ \E r \in {NorvigCanSolveResult(heap[board], order)} :
       \E solved \in {r.raised = "none" /\ r.value /\ r.solution # NoBoard} :
           /\ heap' = IF solved THEN Append(heap, r.solution) ELSE heap
           /\ ret' = [op |-> "norvig.can_solve", args |-> <<Values(heap[board])>>,
                      raised |-> r.raised, value |-> r.value,
                      solution |-> IF solved THEN Len(heap) + 1 ELSE 0,
                      tried |-> r.tried, parsed |-> r.parsed]
    /\ UNCHANGED <<numbers, board, prep, call>>

(* norvig_solver.Solver(board).is_solution() *)
NorvigIsSolution(order) ==
    /\ ret.op = "none"
    /\ \E r \in {NorvigIsSolutionResult(heap[board], order)} :
           ret' = [op |-> "norvig.is_solution", args |-> <<Values(heap[board])>>,
                   raised |-> r.raised, value |-> r.value]
    /\ UNCHANGED <<numbers, heap, board, prep, call>>

(* Solver.Solver(board).can_solve() *)
BruteCanSolve ==
    /\ ret.op = "none"
    /\ \E new \in {BruteSolver(heap, board)} :
       \E r \in {BruteCanSolveResult(new.heap[new.self.board], new.self.empties)} :
           /\ heap' = [new.heap EXCEPT ![new.self.board] = r.board]
           /\ ret' = [op |-> "brute.can_solve", args |-> <<Values(heap[board])>>,
                      raised |-> "none", value |-> r.value,
                      solver_board |-> new.self.board]
    /\ UNCHANGED <<numbers, board, prep, call>>

(* Solver.Solver(board).is_solution() *)
BruteIsSolutionCall ==
    /\ ret.op = "none"
    /\ \E new \in {BruteSolver(heap, board)} :
           /\ heap' = new.heap
           /\ ret' = [op |-> "brute.is_solution", args |-> <<Values(heap[board])>>,
                      raised |-> "none",
                      value |-> BruteIsSolution(new.heap[new.self.board]),
                      solver_board |-> new.self.board]
    /\ UNCHANGED <<numbers, board, prep, call>>

Next ==
    \/ \E i \in DOMAIN heap[board].cells : \E v \in 0..heap[board].side_length :
            SetCell(i, v)
    \/ \E order \in PeerOrders : NorvigCanSolve(order)
    \/ \E order \in PeerOrders : NorvigIsSolution(order)
    \/ BruteCanSolve
    \/ BruteIsSolutionCall

Spec == Init /\ [][Next]_vars

---------------------------------------------------------------------------
(* What the claims about the solvers mean, stated on lists of values.      *)

(* two cells of one row, column or tile hold the same nonzero value *)
HasDuplicate(values, rank) ==
    \E u \in Units(rank) : \E i, j \in u :
        i # j /\ values[i] # 0 /\ values[i] = values[j]

(* some assignment of 1..side to the empty cells makes every row, column   *)
(* and tile hold each value once: tried cell by cell, left to right        *)
RECURSIVE HasCompletion(_, _)
HasCompletion(values, rank) ==
    IF HasDuplicate(values, rank) THEN FALSE
    ELSE IF \A i \in DOMAIN values : values[i] # 0 THEN CompleteAndValid(values, rank)
    ELSE LET i == CHOOSE k \in DOMAIN values :
                    values[k] = 0 /\ \A j \in 1..(k - 1) : values[j] # 0
         IN  \E v \in 1..(rank * rank) : HasCompletion([values EXCEPT ![i] = v], rank)

Extends(solution, values) ==
    /\ Len(solution) = Len(values)
    /\ \A i \in DOMAIN values : values[i] # 0 => solution[i] = values[i]

(* C1: norvig can_solve() returns True exactly when the board has a        *)
(* completion in which every row, column and tile holds each of 1..side    *)
(* once.                                                                   *)
C1_CanSolveDecides ==
    ret.op = "norvig.can_solve" =>
        /\ ret.raised = "none"
        /\ ret.value <=> HasCompletion(ret.args[1], heap[board].rank)

C1_Witness ==
    /\ ret.op = "norvig.can_solve"
    /\ ret.value
    /\ ret.tried > 0

(* C2: when norvig can_solve() returns True, solver.solution is a new      *)
(* board of the same size, complete and valid, that keeps every nonzero    *)
(* value of the input at its position.                                     *)
C2_SolutionExtendsInput ==
    (ret.op = "norvig.can_solve" /\ ret.value) =>
        /\ ret.solution \in DOMAIN heap
        /\ ret.solution # board
        /\ heap[ret.solution].size = heap[board].size
        /\ CompleteAndValid(Values(heap[ret.solution]), heap[board].rank)
        /\ Extends(Values(heap[ret.solution]), ret.args[1])

C2_Witness ==
    /\ ret.op = "norvig.can_solve"
    /\ ret.value
    /\ \E i \in DOMAIN ret.args[1] : ret.args[1][i] = 0
    /\ \A k \in DOMAIN StartValues4 : Values(heap[ret.solution]) # StartValues4[k]

(* C3: a solver constructed on a board and asked can_solve() or            *)
(* is_solution() leaves every cell value of the caller's board unchanged.  *)
C3_SolversLeaveBoard ==
    ret.op \in {"norvig.can_solve", "norvig.is_solution",
                "brute.can_solve", "brute.is_solution"} =>
        Values(heap[board]) = ret.args[1]

C3_Witness ==
    /\ ret.op = "brute.can_solve"
    /\ ~ret.value
    /\ Values(heap[ret.solver_board]) # Values(heap[board])

(* C4: on a board with the same nonzero value twice in a row, column or    *)
(* tile, can_solve() returns False and raises nothing; the norvig solver   *)
(* finds the contradiction in parse_grid (self.values is {}) and its       *)
(* search tries no candidate value.                                        *)
C4_DuplicateIsUnsolvable ==
    (ret.op \in {"norvig.can_solve", "brute.can_solve"}
        /\ HasDuplicate(ret.args[1], heap[board].rank)) =>
        /\ ret.raised = "none"
        /\ ~ret.value
        /\ ret.op = "norvig.can_solve" => (~ret.parsed /\ ret.tried = 0)

C4_Witness ==
    /\ ret.op = "norvig.can_solve"
    /\ HasDuplicate(ret.args[1], heap[board].rank)
    /\ \E i \in DOMAIN ret.args[1] : ret.args[1][i] = 0

(* C5: is_solution() of either solver returns a boolean, True exactly when *)
(* every row, column and tile of the board as given holds 1..side.         *)
C5_IsSolutionChecksBoard ==
    ret.op \in {"norvig.is_solution", "brute.is_solution"} =>
        /\ ret.raised = "none"
        /\ ret.value <=> CompleteAndValid(ret.args[1], heap[board].rank)

---------------------------------------------------------------------------
(* The indices of a constructed board.                                     *)

(* how many of the lists of an index, taken as sets, hold cell i *)
Occurrences(sets, i) == Cardinality({k \in DOMAIN sets : i \in sets[k]})

(* an index is side lists of side different cells, every cell in one list  *)
IndexPartitions(lists, b) ==
    \E sets \in {AsDict([k \in DOMAIN lists |-> Range(lists[k])])} :
        /\ DOMAIN lists = 1..b.side_length
        /\ \A k \in DOMAIN lists :
                /\ Len(lists[k]) = b.side_length
                /\ Cardinality(sets[k]) = b.side_length
        /\ \A i \in DOMAIN b.cells : Occurrences(sets, i) = 1

(* C11: a constructed board of rank 2, 3 or 4 has side = rank^2 rows,      *)
(* columns and tiles of side cells each; every cell is in exactly one row  *)
(* list, one column list and one tile list, its tile being                 *)
(* rank*(row // rank) + (col // rank); every cell's context excludes the   *)
(* cell, is symmetric and has 3*side - 2*rank - 1 members.                 *)
C11_BoardTopology ==
    (ret.op \in {"Board", "LegacyBoard"} /\ ret.raised = "none") =>
        \E b \in {heap[ret.value]} :
        \E rows \in {AsDict(Rows(b))} :
        \E columns \in {AsDict(Columns(b))} :
        \E tiles \in {AsDict(Tiles(b))} :
        \E context \in {AsDict([i \in DOMAIN b.cells |->
                            get_context(rows, columns, tiles, b.cells[i], i)])} :
            /\ b.rank \in {2, 3, 4}
            /\ b.side_length = b.rank * b.rank
            /\ Len(b.cells) = b.side_length * b.side_length
            /\ IndexPartitions(rows, b)
            /\ IndexPartitions(columns, b)
            /\ IndexPartitions(tiles, b)
            /\ \A i \in DOMAIN b.cells :
                    /\ b.cells[i].tile = b.rank * (b.cells[i].row \div b.rank)
                                           + (b.cells[i].col \div b.rank)
                    /\ i \notin context[i]
                    /\ Cardinality(context[i]) = 3 * b.side_length - 2 * b.rank - 1
                    /\ \A j \in context[i] : i \in context[j]

C11_Witness ==
    /\ ret.op = "Board"
    /\ ret.raised = "none"
    /\ heap[ret.value].rank = 4
    /\ Cardinality(Context(heap[ret.value], 256)) = 39

---------------------------------------------------------------------------
(* The data of the generators: seed grids, difficulty levels, cutoffs.     *)

(* the second and third 9x9 seeds and the 16x16 seed of generator.py *)
StartValues9b ==
    <<1, 3, 2, 4, 6, 5, 7, 9, 8,
      4, 6, 5, 7, 9, 8, 1, 3, 2,
      7, 9, 8, 1, 3, 2, 4, 6, 5,
      2, 4, 9, 5, 7, 3, 8, 1, 6,
      5, 7, 3, 8, 1, 6, 2, 4, 9,
      8, 1, 6, 2, 4, 9, 5, 7, 3,
      3, 5, 7, 6, 8, 1, 9, 2, 4,
      6, 8, 1, 9, 2, 4, 3, 5, 7,
      9, 2, 4, 3, 5, 7, 6, 8, 1>>

StartValues9c ==
    <<9, 8, 7, 6, 5, 4, 3, 2, 1,
      6, 5, 4, 3, 2, 1, 9, 8, 7,
      3, 2, 1, 9, 8, 7, 6, 5, 4,
      8, 4, 3, 5, 1, 9, 2, 7, 6,
      5, 1, 9, 2, 7, 6, 8, 4, 3,
      2, 7, 6, 8, 4, 3, 5, 1, 9,
      7, 6, 2, 4, 3, 8, 1, 9, 5,
      4, 3, 8, 1, 9, 5, 7, 6, 2,
      1, 9, 5, 7, 6, 2, 4, 3, 8>>

StartValues16 ==
    <<1, 2, 3, 4, 5, 6, 7, 8, 9, 10, 11, 12, 13, 14, 15, 16,
      5, 6, 7, 8, 9, 10, 11, 12, 13, 14, 15, 16, 1, 2, 3, 4,
      9, 10, 11, 12, 13, 14, 15, 16, 1, 2, 3, 4, 5, 6, 7, 8,
      13, 14, 15, 16, 1, 2, 3, 4, 5, 6, 7, 8, 9, 10, 11, 12,
      2, 1, 4, 3, 6, 5, 8, 7, 10, 9, 12, 11, 14, 13, 16, 15,
      6, 5, 8, 7, 10, 9, 12, 11, 14, 13, 16, 15, 2, 1, 4, 3,
      10, 9, 12, 11, 14, 13, 16, 15, 2, 1, 4, 3, 6, 5, 8, 7,
      14, 13, 16, 15, 2, 1, 4, 3, 6, 5, 8, 7, 10, 9, 12, 11,
      4, 3, 2, 1, 8, 7, 6, 5, 12, 11, 10, 9, 16, 15, 14, 13,
      8, 7, 6, 5, 12, 11, 10, 9, 16, 15, 14, 13, 4, 3, 2, 1,
      12, 11, 10, 9, 16, 15, 14, 13, 4, 3, 2, 1, 8, 7, 6, 5,
      16, 15, 14, 13, 4, 3, 2, 1, 8, 7, 6, 5, 12, 11, 10, 9,
      3, 4, 1, 2, 7, 8, 5, 6, 11, 12, 9, 10, 15, 16, 13, 14,
      7, 8, 5, 6, 11, 12, 9, 10, 15, 16, 13, 14, 3, 4, 1, 2,
      11, 12, 9, 10, 15, 16, 13, 14, 3, 4, 1, 2, 7, 8, 5, 6,
      15, 16, 13, 14, 3, 4, 1, 2, 7, 8, 5, 6, 11, 12, 9, 10>>

(* Generator.start_values (generator.py) *)
start_values ==
    [side_length \in {"4", "9", "16"} |->
        CASE side_length = "4" -> StartValues4
          [] side_length = "9" -> <<StartValues9, StartValues9b, StartValues9c>>
          [] side_length = "16" -> <<StartValues16>>]

(* Generator.thresholds (generator.py): <<first_cutoff, second_cutoff>> *)
thresholds ==
    [difficulty \in {"easy", "medium", "hard", "extreme", "insane"} |->
        CASE difficulty = "easy" ->
                [side_length \in {"4", "9", "16"} |->
                    CASE side_length = "4" -> <<6, 0>>
                      [] side_length = "9" -> <<27, 0>>
                      [] side_length = "16" -> <<64, 0>>]
          [] difficulty = "medium" ->
                [side_length \in {"4", "9", "16"} |->
                    CASE side_length = "4" -> <<9, 1>>
                      [] side_length = "9" -> <<41, 5>>
                      [] side_length = "16" -> <<96, 16>>]
          [] difficulty = "hard" ->
                [side_length \in {"4", "9", "16"} |->
                    CASE side_length = "4" -> <<12, 2>>
                      [] side_length = "9" -> <<54, 10>>
                      [] side_length = "16" -> <<128, 33>>]
          [] difficulty = "extreme" ->
                [side_length \in {"4", "9", "16"} |->
                    CASE side_length = "4" -> <<16, 3>>
                      [] side_length = "9" -> <<81, 15>>
                      [] side_length = "16" -> <<184, 49>>]
          [] difficulty = "insane" ->
                [side_length \in {"4", "9", "16"} |->
                    CASE side_length = "4" -> <<16, 4>>
                      [] side_length = "9" -> <<81, 20>>
                      [] side_length = "16" -> <<256, 66>>]]

(* the built-in grid of Generator.Generator(rank) (Generator.py) *)
LegacyBuiltin(rank) ==
    CASE rank = 2 -> <<1, 2, 3, 4,  3, 4, 1, 2,  2, 3, 4, 1,  4, 1, 2, 3>>
      [] rank = 3 -> StartValues9
      [] rank = 4 -> StartValues16

(* sudoku.py: thresholds, in thousandths, and the cutoffs                  *)
(* int(logical * size), int(random * size) of generate()                   *)
LegacyThresholds ==
    [difficulty \in {"easy", "medium", "hard", "extreme", "insane"} |->
        CASE difficulty = "easy" -> <<340, 0>>
          [] difficulty = "medium" -> <<340, 65>>
          [] difficulty = "hard" -> <<340, 130>>
          [] difficulty = "extreme" -> <<400, 195>>
          [] difficulty = "insane" -> <<400, 260>>]

LegacyCutoffs(difficulty, size) ==
    <<(LegacyThresholds[difficulty][1] * size) \div 1000,
      (LegacyThresholds[difficulty][2] * size) \div 1000>>

---------------------------------------------------------------------------
(* The removal passes of the generators.  A pass is run as a record        *)
(* [board, cells, at, cutoff, one, trace, raised, done]: cells is the list *)
(* the loop iterates over, at the position of the next cell, one the unit  *)
(* the cutoff is counted in, trace one entry per cell visited.             *)

(* get_density(cell): integer division, so 1 when every cell of the        *)
(* context is filled and 0 otherwise                                       *)
get_density(b, i) ==
    Cardinality({c \in Context(b, i) : b.cells[c].value # 0})
        \div Cardinality(Context(b, i))

(* sorted(ranked_cells, key=density, reverse=True): a stable sort, the     *)
(* keys being 1 and 0                                                      *)
SortedByDensity(b, cells) ==
    SelectSeq(cells, LAMBDA i : get_density(b, i) = 1)
        \o SelectSeq(cells, LAMBDA i : get_density(b, i) = 0)

(* random.shuffle(cells): the orders tried are the reversed list and the   *)
(* rotations of the list by the first multiples of ShuffleStride, the list *)
(* as it was included                                                      *)
MaxShuffles == 1

ShuffleStride == 5

Rotate(cells, k) ==
    AsList([i \in 1..Len(cells) |-> cells[((i - 1 + k) % Len(cells)) + 1]])

Shuffles(cells) ==
    IF Len(cells) = 0 THEN {cells}
    ELSE {Rotate(cells, k * ShuffleStride) : k \in 0..(MaxShuffles - 1)}
         \cup {Reverse(cells)}

PassStart(b, cells, cutoff) ==
    [board |-> b, cells |-> cells, at |-> 1, cutoff |-> cutoff, one |-> 1,
     trace |-> <<>>, raised |-> "none", done |-> FALSE]

(* a pass given a fraction as its cutoff: the cutoff is counted in         *)
(* thousandths, in which the 1 of `cutoff -= 1` is 1000                    *)
Thousand == 1000

FractionStart(b, cells, thousandths) ==
    [PassStart(b, cells, thousandths) EXCEPT !.one = Thousand]

(* what a visit of cell leaves in the trace: tried are the substitutes     *)
(* given to can_solve(), hit the position among them of the one it         *)
(* answered True for, 0 when there was none                                *)
Visit(st, cell, possibles, original, tried, hit, after) ==
    [cell |-> cell, possibles |-> possibles, original |-> original,
     cutoff |-> st.cutoff, tried |-> tried, hit |-> hit,
     cleared |-> after.cells[cell].value = 0,
     before |-> Values(st.board), values |-> Values(after)]

(* generator.Generator.remove_values_1: one round of `for cell in cells`   *)
RemoveStepBeyondCutoff(st) ==
    LET cell == st.cells[st.at]
        possibles == get_possibles(st.board, cell)
        clear == Cardinality(possibles) = 1
        after == IF clear THEN [st.board EXCEPT !.cells[cell].value = 0] ELSE st.board
    IN  CASE st.at > Len(st.cells) -> [st EXCEPT !.done = TRUE]
          [] st.cutoff < 0 -> [st EXCEPT !.done = TRUE]
          [] OTHER ->
                [st EXCEPT !.board = after, !.at = @ + 1,
                           !.cutoff = IF clear THEN @ - 1 ELSE @,
                           !.trace = Append(@, Visit(st, cell, possibles,
                                        st.board.cells[cell].value, <<>>, 0, after))]

RemoveStepLoose(st) ==
    LET cell == st.cells[st.at]
        possibles == get_possibles(st.board, cell)
        clear == Cardinality(possibles) <= 2
        after == IF clear THEN [st.board EXCEPT !.cells[cell].value = 0] ELSE st.board
    IN  CASE st.at > Len(st.cells) -> [st EXCEPT !.done = TRUE]
          [] st.cutoff <= 0 -> [st EXCEPT !.done = TRUE]
          [] OTHER ->
                [st EXCEPT !.board = after, !.at = @ + 1,
                           !.cutoff = IF clear THEN @ - 1 ELSE @,
                           !.trace = Append(@, Visit(st, cell, possibles,
                                        st.board.cells[cell].value, <<>>, 0, after))]

RemoveStep(st) ==
    LET cell == st.cells[st.at]
        possibles == get_possibles(st.board, cell)
        clear == Cardinality(possibles) = 1
        after == IF clear THEN [st.board EXCEPT !.cells[cell].value = 0] ELSE st.board
    IN  CASE st.at > Len(st.cells) -> [st EXCEPT !.done = TRUE]
          [] st.cutoff <= 0 -> [st EXCEPT !.done = TRUE]
          [] OTHER ->
                [st EXCEPT !.board = after, !.at = @ + 1,
                           !.cutoff = IF clear THEN @ - 1 ELSE @,
                           !.trace = Append(@, Visit(st, cell, possibles,
                                        st.board.cells[cell].value, <<>>, 0, after))]

(* Generator.Generator.reduce_via_logical: one round of `for cell in       *)
(* cells`, which breaks when the cutoff reaches 0                          *)
LogicalStep(st) ==
    LET cell == st.cells[st.at]
        possibles == get_possibles(st.board, cell)
        clear == Cardinality(possibles) = 1
        after == IF clear THEN [st.board EXCEPT !.cells[cell].value = 0] ELSE st.board
    IN  CASE st.at > Len(st.cells) -> [st EXCEPT !.done = TRUE]
          [] OTHER ->
                [st EXCEPT !.board = after, !.at = @ + 1,
                           !.cutoff = IF clear THEN @ - st.one ELSE @,
                           !.done = clear /\ st.cutoff - st.one = 0,
                           !.trace = Append(@, Visit(st, cell, possibles,
                                        st.board.cells[cell].value, <<>>, 0, after))]

(* Solver(self.board).can_solve() as the generators call it: the norvig   *)
(* solver in generator.py, the brute-force solver in Generator.py, which   *)
(* works on a copy of the board; [raised, value]                           *)
NorvigAnswer(r) == [raised |-> r.raised, value |-> r.value]

BruteAnswer(copy) ==
    [raised |-> "none", value |-> BruteCanSolveResult(copy, get_empty_cells(copy)).value]

GeneratorCanSolve(solver, b) ==
    IF solver.kind = "norvig"
    THEN NorvigAnswer(NorvigCanSolveResult(b, solver.order))
    ELSE BruteAnswer(LegacyCopy(b))

(* the values of a set in the order a Python set of small ints yields them *)
Ascending(set, side_length) ==
    SelectSeq(AsList([v \in 1..side_length |-> v]), LAMBDA v : v \in set)

(* `for x in others: cell.value = x; if can_solve(): ...; break`:          *)
(* [hit, raised], hit the position of the first substitute that can be     *)
(* solved, 0 when there is none; r is what can_solve() answered for        *)
(* others[k]                                                               *)
RECURSIVE TrySubstitutes(_, _, _, _, _)
RECURSIVE TriedSubstitute(_, _, _, _, _, _)
TriedSubstitute(solver, b, cell, others, k, r) ==
    CASE r.raised # "none" -> [hit |-> 0, raised |-> r.raised]
      [] r.value -> [hit |-> k, raised |-> "none"]
      [] OTHER -> TrySubstitutes(solver, b, cell, others, k + 1)

TrySubstitutes(solver, b, cell, others, k) ==
    IF k > Len(others) THEN [hit |-> 0, raised |-> "none"]
    ELSE TriedSubstitute(solver, b, cell, others, k,
            GeneratorCanSolve(solver, [b EXCEPT !.cells[cell].value = others[k]]))

(* the body of the loop over cells of reduce_pass_2 and reduce_via_random, *)
(* the loop over the substitutes having ended with found: final is         *)
(* cell.value when that loop is left                                       *)
SubstitutedInverted(st, cell, original, possibles, others, found) ==
    LET clear == found.hit > 0
        after == IF clear THEN [st.board EXCEPT !.cells[cell].value = 0] ELSE st.board
        tried == IF found.hit > 0 THEN SubSeq(others, 1, found.hit) ELSE others
    IN  IF found.raised # "none"
        THEN [st EXCEPT !.raised = found.raised, !.done = TRUE]
        ELSE [st EXCEPT !.board = after, !.at = @ + 1,
                        !.cutoff = IF clear THEN @ - st.one ELSE @,
                        !.trace = Append(@, Visit(st, cell, possibles, original,
                                                  tried, found.hit, after))]

SubstitutedNotRestored(st, cell, original, possibles, others, found) ==
    LET final == CASE found.hit > 0 -> others[found.hit]
                   [] Len(others) = 0 -> original
                   [] OTHER -> others[Len(others)]
        clear == found.hit = 0 /\ final # original
        after == [st.board EXCEPT !.cells[cell].value = IF clear THEN 0 ELSE final]
        tried == IF found.hit > 0 THEN SubSeq(others, 1, found.hit) ELSE others
    IN  IF found.raised # "none"
        THEN [st EXCEPT !.raised = found.raised, !.done = TRUE]
        ELSE [st EXCEPT !.board = after, !.at = @ + 1,
                        !.cutoff = IF clear THEN @ - st.one ELSE @,
                        !.trace = Append(@, Visit(st, cell, possibles, original,
                                                  tried, found.hit, after))]

Substituted(st, cell, original, possibles, others, found) ==
    LET final == CASE found.hit > 0 -> original
                   [] Len(others) = 0 -> original
                   [] OTHER -> others[Len(others)]
        clear == final # original
        after == IF clear THEN [st.board EXCEPT !.cells[cell].value = 0] ELSE st.board
        tried == IF found.hit > 0 THEN SubSeq(others, 1, found.hit) ELSE others
    IN  IF found.raised # "none"
        THEN [st EXCEPT !.raised = found.raised, !.done = TRUE]
        ELSE [st EXCEPT !.board = after, !.at = @ + 1,
                        !.cutoff = IF clear THEN @ - st.one ELSE @,
                        !.trace = Append(@, Visit(st, cell, possibles, original,
                                                  tried, found.hit, after))]

(* original = cell.value and the substitutes of the cell, then the loop    *)
(* over them                                                               *)
Substitutes(solver, st, cell, original, possibles, others) ==
    Substituted(st, cell, original, possibles, others,
                TrySubstitutes(solver, st.board, cell, others, 1))

Candidates(solver, st, cell, original, possibles) ==
    Substitutes(solver, st, cell, original, possibles,
                Ascending(possibles \ {original}, st.board.side_length))

Substitute(solver, st) ==
    Candidates(solver, st, st.cells[st.at], st.board.cells[st.cells[st.at]].value,
               get_possibles(st.board, st.cells[st.at]))

(* generator.Generator.reduce_pass_2: one round of `for cell in cells`     *)
ReduceStep(solver, st) ==
    CASE st.at > Len(st.cells) -> [st EXCEPT !.done = TRUE]
      [] st.cutoff <= 0 -> [st EXCEPT !.done = TRUE]
      [] OTHER -> Substitute(solver, st)

(* Generator.Generator.reduce_via_random: one round of `for cell in        *)
(* cells`, which breaks when the cutoff reaches 0                          *)
RandomBreak(st, next) ==
    [next EXCEPT !.done = @ \/ (next.cutoff < st.cutoff /\ next.cutoff = 0)]

RandomStep(solver, st) ==
    IF st.at > Len(st.cells) THEN [st EXCEPT !.done = TRUE]
    ELSE RandomBreak(st, Substitute(solver, st))

(* `for cell in cells` of each pass, one round after another until the     *)
(* pass is left; a round visits one cell, so the rounds number at most the *)
(* cells of the board and one                                              *)
RECURSIVE RemoveLoop(_)
RemoveLoop(st) == IF st.done THEN st ELSE RemoveLoop(RemoveStep(st))

RECURSIVE ReduceLoop(_, _)
ReduceLoop(solver, st) ==
    IF st.done THEN st ELSE ReduceLoop(solver, ReduceStep(solver, st))

RECURSIVE LogicalLoop(_)
LogicalLoop(st) == IF st.done THEN st ELSE LogicalLoop(LogicalStep(st))

RECURSIVE RandomLoop(_, _)
RandomLoop(solver, st) ==
    IF st.done THEN st ELSE RandomLoop(solver, RandomStep(solver, st))

(* remove_values_1(cutoff), cells being get_filled_cells() shuffled *)
remove_values_1(b, cells, cutoff) == RemoveLoop(PassStart(b, cells, cutoff))

(* reduce_pass_2(cutoff), shuffled being get_filled_cells() shuffled *)
reduce_pass_2(solver, b, shuffled, cutoff) ==
    ReduceLoop(solver, PassStart(b, SortedByDensity(b, shuffled), cutoff))

(* reduce_via_logical(cutoff): `if cutoff <= 0: return` comes first *)
reduce_via_logical(b, cells, cutoff) ==
    IF cutoff <= 0 THEN [PassStart(b, cells, cutoff) EXCEPT !.done = TRUE]
    ELSE LogicalLoop(PassStart(b, cells, cutoff))

(* reduce_via_random(cutoff): the filled cells sorted by density, not      *)
(* shuffled                                                                *)
reduce_via_random(solver, b, cutoff) ==
    IF cutoff <= 0
    THEN [PassStart(b, SortedByDensity(b, get_filled_cells(b)), cutoff)
            EXCEPT !.done = TRUE]
    ELSE RandomLoop(solver,
                    PassStart(b, SortedByDensity(b, get_filled_cells(b)), cutoff))

---------------------------------------------------------------------------
(* randomize(iterations) as one call: the boards it can leave.  An outcome *)
(* is [raised, board].                                                     *)

RandomizeRound(outcomes) ==
    UNION {IF o.raised # "none" THEN {o}
           ELSE {sw.result : sw \in IterationSwaps(o.board)} : o \in outcomes}

(* `for x in range(0, iterations)`: once a round leaves the set of         *)
(* outcomes as it was, so does every later round                           *)
RECURSIVE RandomizeRounds(_, _)
RandomizeRounds(outcomes, iterations) ==
    IF iterations <= 0 THEN outcomes
    ELSE UNION {IF next = outcomes THEN outcomes
                ELSE RandomizeRounds(next, iterations - 1) :
                    next \in {RandomizeRound(outcomes)}}

randomize(b, iterations) ==
    RandomizeRounds({[raised |-> "none", board |-> b]}, iterations)

(* Generator.Generator.randomize (Generator.py) refuses a partial board    *)
legacy_randomize(b, iterations) ==
    IF Len(get_filled_cells(b)) # b.size
    THEN {[raised |-> "ValueError", board |-> b]}
    ELSE randomize(b, iterations)

---------------------------------------------------------------------------
(* generator.Generator: the constructor and generate_one(), and the legacy *)
(* Generator.Generator as sudoku.py's generate() drives it.  `numbers` is  *)
(* the corpus of seed grids, `call` the generator object with the position *)
(* of its caller and the seed grid it chose, `board` the generator's       *)
(* self.board.                                                             *)

SideLengths == {"4", "5"}

Difficulties == {"easy", "medium", "hard", "extreme", "insane", "unknown"}

Ranks == {2, 5}

(* the cutoffs generate() of sudoku.py computes for a board of 16 cells,   *)
(* and for the logical pass the cutoffs 0 and 1 as well                    *)
LogicalCutoffs ==
    {0, 1} \cup {LegacyCutoffs(difficulty, 16)[1] : difficulty \in DOMAIN LegacyThresholds}

RandomCutoffs ==
    {LegacyCutoffs(difficulty, 16)[2] : difficulty \in DOMAIN LegacyThresholds}

InitGenerate ==
    /\ numbers = start_values
    /\ heap = <<>>
    /\ board = 0
    /\ ret = NoCall
    /\ prep = 0
    /\ call = Idle

Returned(op, args, raised) == [op |-> op, args |-> args, raised |-> raised, value |-> 0]

(* Generator(side_length, difficulty)   (generator.py) *)
NewGenerator(side_length, difficulty) ==
    /\ call = Idle
    /\ ret.op = "none"
    /\ IF side_length \notin DOMAIN numbers \/ difficulty \notin DOMAIN thresholds
       THEN /\ ret' = Returned("Generator", <<side_length, difficulty>>, "ValueError")
            /\ call' = call
       ELSE /\ ret' = Returned("Generator", <<side_length, difficulty>>, "none")
            /\ call' = [op |-> "Generator", pc |-> "generate_one",
                        start_values_list |-> numbers[side_length],
                        first_cutoff |-> thresholds[difficulty][side_length][1],
                        second_cutoff |-> thresholds[difficulty][side_length][2],
                        seed |-> <<>>, order |-> "none", solution |-> 0,
                        snapshot |-> <<>>]
    /\ UNCHANGED <<numbers, heap, board, prep>>

(* generate_one(), lines 224-228: the seed is chosen, the board built and  *)
(* checked                                                                 *)
GenerateOneStart(index, order) ==
    /\ call.op = "Generator"
    /\ call.pc = "generate_one"
    /\ \E made \in {BoardInit(call.start_values_list[index + 1])} :
         IF made.raised # "none"
         THEN /\ ret' = Returned("seed_check", <<index>>, made.raised)
              /\ call' = [call EXCEPT !.pc = "raised",
                                      !.seed = call.start_values_list[index + 1]]
              /\ UNCHANGED <<heap, board>>
         ELSE \E checked \in {NorvigIsSolutionResult(made.board, order)} :
              /\ heap' = Append(heap, made.board)
              /\ board' = Len(heap) + 1
              /\ ret' = Returned("seed_check", <<index>>,
                           CASE checked.raised # "none" -> checked.raised
                             [] ~checked.value -> "AssertionError"
                             [] OTHER -> "none")
              /\ call' = [call EXCEPT
                            !.pc = IF checked.raised = "none" /\ checked.value
                                   THEN "randomize" ELSE "raised",
                            !.seed = call.start_values_list[index + 1],
                            !.order = order]
    /\ UNCHANGED <<numbers, prep>>

(* lines 229-230: self.randomize(self.board.size + 20), then the solution  *)
(* is copied                                                               *)
GenerateRandomize ==
    /\ call.op = "Generator"
    /\ call.pc = "randomize"
    /\ \E o \in randomize(heap[board], heap[board].size + 20) :
         IF o.raised # "none"
         THEN /\ heap' = [heap EXCEPT ![board] = o.board]
              /\ ret' = Returned("randomize", <<heap[board].size + 20>>, o.raised)
              /\ call' = [call EXCEPT !.pc = "raised"]
         ELSE /\ heap' = Append([heap EXCEPT ![board] = o.board], Copy(o.board))
              /\ ret' = Returned("randomize", <<heap[board].size + 20>>, "none")
              /\ call' = [call EXCEPT !.pc = "remove_values_1",
                                      !.solution = Len(heap) + 1,
                                      !.snapshot = Values(o.board)]
    /\ UNCHANGED <<numbers, board, prep>>

(* what a pass returns to the model's observer *)
PassReturned(op, cutoff, before, st) ==
    [op |-> op, args |-> <<cutoff>>, raised |-> st.raised, value |-> 0,
     before |-> before, trace |-> st.trace, finished |-> st.done]

(* line 231: self.remove_values_1(self.first_cutoff) *)
GenerateRemoveValues1 ==
    /\ call.op = "Generator"
    /\ call.pc = "remove_values_1"
    /\ \E cells \in Shuffles(get_filled_cells(heap[board])) :
       \E st \in {remove_values_1(heap[board], cells, call.first_cutoff)} :
         /\ heap' = [heap EXCEPT ![board] = st.board]
         /\ ret' = PassReturned("remove_values_1", call.first_cutoff,
                                Values(heap[board]), st)
         /\ call' = [call EXCEPT !.pc = IF st.raised = "none" THEN "reduce_pass_2"
                                        ELSE "raised"]
    /\ UNCHANGED <<numbers, board, prep>>

(* line 232: self.reduce_pass_2(self.second_cutoff) *)
GenerateReducePass2 ==
    /\ call.op = "Generator"
    /\ call.pc = "reduce_pass_2"
    /\ \E shuffled \in Shuffles(get_filled_cells(heap[board])) :
       \E st \in {reduce_pass_2([kind |-> "norvig", order |-> call.order],
                                heap[board], shuffled, call.second_cutoff)} :
         /\ heap' = [heap EXCEPT ![board] = st.board]
         /\ ret' = PassReturned("reduce_pass_2", call.second_cutoff,
                                Values(heap[board]), st)
         /\ call' = [call EXCEPT !.pc = IF st.raised = "none" THEN "return"
                                        ELSE "raised"]
    /\ UNCHANGED <<numbers, board, prep>>

(* lines 233-235: the puzzle and the solution are returned *)
GenerateReturn ==
    /\ call.op = "Generator"
    /\ call.pc = "return"
    /\ ret' = [op |-> "generate_one", args |-> <<>>, raised |-> "none", value |-> 0,
               puzzle |-> board, solution |-> call.solution]
    /\ board' = 0
    /\ call' = [call EXCEPT !.pc = "returned"]
    /\ UNCHANGED <<numbers, heap, prep>>

(* Generator(rank, starter)   (Generator.py): a starter file holds one of  *)
(* the 4x4 grids of the corpus, 0 stands for no file                       *)
LegacySeed(rank, starter) ==
    CASE starter # 0 /\ RankOfSize(Len(numbers["4"][starter])) = 0 ->
            [raised |-> "ValueError", rank |-> rank, numbers |-> <<>>]
      [] starter # 0 ->
            [raised |-> "none", rank |-> RankOfSize(Len(numbers["4"][starter])),
             numbers |-> numbers["4"][starter]]
      [] rank \in {2, 3, 4} ->
            [raised |-> "none", rank |-> rank, numbers |-> LegacyBuiltin(rank)]
      [] OTHER -> [raised |-> "ValueError", rank |-> rank, numbers |-> <<>>]

LegacyGenerator(rank, starter) ==
    /\ call = Idle
    /\ ret.op = "none"
    /\ \E seed \in {LegacySeed(rank, starter)} :
       \E made \in {IF seed.raised = "none" THEN LegacyBoardInit(seed.rank, seed.numbers)
                    ELSE [raised |-> seed.raised, board |-> NoBoard]} :
         IF made.raised # "none"
         THEN /\ ret' = Returned("LegacyGenerator", <<rank, starter>>, made.raised)
              /\ UNCHANGED <<heap, board, call>>
         ELSE \E valid \in {BruteIsSolution(LegacyCopy(made.board))} :
              /\ heap' = Append(heap, made.board)
              /\ board' = Len(heap) + 1
              /\ ret' = Returned("LegacyGenerator", <<rank, starter>>,
                                 IF valid THEN "none" ELSE "ValueError")
              /\ call' = IF valid
                         THEN [op |-> "LegacyGenerator", pc |-> "randomize",
                               seed |-> seed.numbers,
                               logical_cutoff |-> 0, random_cutoff |-> 0,
                               solution |-> 0, snapshot |-> <<>>]
                         ELSE call
    /\ UNCHANGED <<numbers, prep>>

(* sudoku.py, generate(): gen.randomize(gen.board.size + 20) and           *)
(* initial = gen.board.copy()                                              *)
LegacyRandomize ==
    /\ call.op = "LegacyGenerator"
    /\ call.pc = "randomize"
    /\ \E o \in legacy_randomize(heap[board], heap[board].size + 20) :
         IF o.raised # "none"
         THEN /\ heap' = [heap EXCEPT ![board] = o.board]
              /\ ret' = Returned("legacy_randomize", <<heap[board].size + 20>>, o.raised)
              /\ call' = [call EXCEPT !.pc = "raised"]
         ELSE /\ heap' = Append([heap EXCEPT ![board] = o.board], LegacyCopy(o.board))
              /\ ret' = Returned("legacy_randomize", <<heap[board].size + 20>>, "none")
              /\ call' = [call EXCEPT !.pc = "reduce_via_logical",
                                      !.solution = Len(heap) + 1,
                                      !.snapshot = Values(o.board)]
    /\ UNCHANGED <<numbers, board, prep>>

(* gen.reduce_via_logical(logical_cutoff) *)
LegacyReduceViaLogical(cutoff) ==
    /\ call.op = "LegacyGenerator"
    /\ call.pc = "reduce_via_logical"
    /\ \E cells \in Shuffles(get_filled_cells(heap[board])) :
       \E st \in {reduce_via_logical(heap[board], cells, cutoff)} :
         /\ heap' = [heap EXCEPT ![board] = st.board]
         /\ ret' = PassReturned("reduce_via_logical", cutoff, Values(heap[board]), st)
         /\ call' = [call EXCEPT !.pc = "reduce_via_random", !.logical_cutoff = cutoff]
    /\ UNCHANGED <<numbers, board, prep>>

(* gen.reduce_via_random(random_cutoff) *)
LegacyReduceViaRandom(cutoff) ==
    /\ call.op = "LegacyGenerator"
    /\ call.pc = "reduce_via_random"
    /\ \E st \in {reduce_via_random([kind |-> "brute"], heap[board], cutoff)} :
         /\ heap' = [heap EXCEPT ![board] = st.board]
         /\ ret' = PassReturned("reduce_via_random", cutoff, Values(heap[board]), st)
         /\ call' = [call EXCEPT !.pc = "return", !.random_cutoff = cutoff]
    /\ UNCHANGED <<numbers, board, prep>>

(* final = gen.board.copy(); outputs.append(final) *)
LegacyReturn ==
    /\ call.op = "LegacyGenerator"
    /\ call.pc = "return"
    /\ heap' = Append(heap, LegacyCopy(heap[board]))
    /\ ret' = [op |-> "generate", args |-> <<>>, raised |-> "none", value |-> 0,
               puzzle |-> Len(heap) + 1, solution |-> call.solution]
    /\ call' = [call EXCEPT !.pc = "returned"]
    /\ UNCHANGED <<numbers, board, prep>>

NextGenerate ==
    \/ \E side_length \in SideLengths : \E difficulty \in Difficulties :
            NewGenerator(side_length, difficulty)
    \/ /\ call.op = "Generator"
       /\ \E index \in 0..(Len(call.start_values_list) - 1) : \E order \in PeerOrders :
            GenerateOneStart(index, order)
    \/ GenerateRandomize
    \/ GenerateRemoveValues1
    \/ GenerateReducePass2
    \/ GenerateReturn
    \/ \E rank \in Ranks : \E starter \in 0..Len(numbers["4"]) :
            LegacyGenerator(rank, starter)
    \/ LegacyRandomize
    \/ \E cutoff \in LogicalCutoffs : LegacyReduceViaLogical(cutoff)
    \/ \E cutoff \in RandomCutoffs : LegacyReduceViaRandom(cutoff)
    \/ LegacyReturn

SpecGenerate == InitGenerate /\ [][NextGenerate]_vars

---------------------------------------------------------------------------
(* The generators started on a corpus with a defect: the side-4 corpus is  *)
(* one of its grids with one of the cells DefectCells set to a value of    *)
(* 0..4 (its own value included, which is the grid without a defect).      *)

DefectCells == {1, 11, 16}

DefectiveCorpora ==
    {[start_values EXCEPT !["4"] = <<[@[k] EXCEPT ![i] = v]>>] :
        k \in DOMAIN start_values["4"], i \in DefectCells, v \in 0..4}

InitSeed ==
    /\ numbers \in DefectiveCorpora
    /\ heap = <<>>
    /\ board = 0
    /\ ret = NoCall
    /\ prep = 0
    /\ call = Idle

NextSeed ==
    \/ NewGenerator("4", "easy")
    \/ /\ call.op = "Generator"
       /\ \E index \in 0..(Len(call.start_values_list) - 1) : \E order \in PeerOrders :
            GenerateOneStart(index, order)
    \/ GenerateRandomize
    \/ GenerateRemoveValues1
    \/ GenerateReducePass2
    \/ GenerateReturn
    \/ \E starter \in 0..Len(numbers["4"]) : LegacyGenerator(2, starter)
    \/ LegacyRandomize
    \/ LegacyReduceViaLogical(LegacyCutoffs("easy", 16)[1])
    \/ LegacyReduceViaRandom(LegacyCutoffs("easy", 16)[2])
    \/ LegacyReturn

SpecSeed == InitSeed /\ [][NextSeed]_vars

---------------------------------------------------------------------------
(* What the claims about the generators mean, stated on lists of values.   *)

(* the positions that share a row, column or tile with position i *)
PeerPositions(rank) ==
    AsDict([i \in 1..(rank * rank * rank * rank) |->
                UNION {u \in Units(rank) : i \in u} \ {i}])

PeerPositions2 == PeerPositions(2)

(* every way to fill the empty cells of a list without a duplicate so that *)
(* no row, column or tile holds a value twice, cell by cell                *)
RECURSIVE Fill(_, _, _)
Fill(values, side, peers) ==
    IF \A i \in DOMAIN values : values[i] # 0 THEN {values}
    ELSE LET i == CHOOSE k \in DOMAIN values :
                    values[k] = 0 /\ \A j \in 1..(k - 1) : values[j] # 0
         IN  UNION {Fill([values EXCEPT ![i] = v], side, peers) :
                        v \in {v \in 1..side : \A j \in peers[i] : values[j] # v}}

Completions(values, rank) ==
    IF HasDuplicate(values, rank) THEN {}
    ELSE Fill(values, rank * rank,
              IF rank = 2 THEN PeerPositions2 ELSE PeerPositions(rank))

Empties(values) == Cardinality({i \in DOMAIN values : values[i] = 0})

(* C12: in the dictionary generate_one() returns, 'solution' is a complete *)
(* valid solution, still what it was when it was copied, and 'puzzle'      *)
(* equals 'solution' wherever the puzzle is nonzero.                       *)
C12_PuzzleOfSolution ==
    (ret.op = "generate_one") =>
        LET puzzle == Values(heap[ret.puzzle])
            solution == Values(heap[ret.solution])
        IN  /\ CompleteAndValid(solution, heap[ret.solution].rank)
            /\ solution = call.snapshot
            /\ Len(puzzle) = Len(solution)
            /\ \A i \in DOMAIN puzzle : puzzle[i] # 0 => puzzle[i] = solution[i]

C12_Witness ==
    /\ ret.op = "generate_one"
    /\ Empties(Values(heap[ret.puzzle])) >= 8
    /\ Values(heap[ret.solution]) \notin Range(StartValues4)

(* C13: after every cell remove_values_1 or reduce_pass_2 clears, and so   *)
(* for the puzzle generate_one() returns, the board has exactly one        *)
(* completion that is a valid solution, the returned 'solution'.           *)
C13_RemovalKeepsUnique ==
    /\ ret.op \in {"remove_values_1", "reduce_pass_2"} =>
         /\ ret.raised = "none"
         /\ \A k \in DOMAIN ret.trace :
              ret.trace[k].cleared =>
                Completions(ret.trace[k].values, heap[board].rank)
                    = {Values(heap[call.solution])}
    /\ ret.op = "generate_one" =>
         Completions(Values(heap[ret.puzzle]), heap[ret.puzzle].rank)
            = {Values(heap[ret.solution])}

C13_Witness ==
    /\ ret.op = "reduce_pass_2"
    /\ Cardinality({k \in DOMAIN ret.trace : ret.trace[k].cleared}) >= 2
    /\ \E k \in DOMAIN ret.trace :
          ret.trace[k].cleared /\ Len(ret.trace[k].tried) >= 1

(* C14: starting from a board with exactly one completion, after every     *)
(* cell the legacy reduce_via_random(cutoff) clears, the board still has   *)
(* exactly one completion.                                                 *)
C14_RandomRemovalKeepsUnique ==
    (ret.op = "reduce_via_random"
        /\ Cardinality(Completions(ret.before, heap[board].rank)) = 1) =>
        \A k \in DOMAIN ret.trace :
            ret.trace[k].cleared =>
                Cardinality(Completions(ret.trace[k].values, heap[board].rank)) = 1

(* C15: the brute-force can_solve() returns True exactly when some         *)
(* assignment of 1..side to the empty cells is a valid solution, and when  *)
(* it returns True solver.board is a valid solution extending the input.   *)
C15_BruteCanSolveDecides ==
    ret.op = "brute.can_solve" =>
        /\ ret.raised = "none"
        /\ ret.value <=> HasCompletion(ret.args[1], heap[board].rank)
        /\ ret.value =>
             /\ CompleteAndValid(Values(heap[ret.solver_board]), heap[board].rank)
             /\ Extends(Values(heap[ret.solver_board]), ret.args[1])

PassOps == {"remove_values_1", "reduce_pass_2", "reduce_via_logical", "reduce_via_random"}

ClearedCount(trace) == Cardinality({k \in DOMAIN trace : trace[k].cleared})

(* C16: each pass clears at most its cutoff number of cells, a cutoff of 0 *)
(* clears nothing, and the puzzle produced has at most as many empty cells *)
(* as the two cutoffs together.                                            *)
C16_CutoffsBound ==
    /\ ret.op \in PassOps =>
         /\ ret.args[1] >= 0
         /\ ClearedCount(ret.trace) <= ret.args[1]
         /\ Empties(Values(heap[board])) - Empties(ret.before) <= ret.args[1]
         /\ ret.args[1] = 0 => Values(heap[board]) = ret.before
    /\ ret.op = "generate_one" =>
         Empties(Values(heap[ret.puzzle])) <= call.first_cutoff + call.second_cutoff
    /\ ret.op = "generate" =>
         Empties(Values(heap[ret.puzzle])) <= call.logical_cutoff + call.random_cutoff

C16_Witness ==
    /\ ret.op = "generate_one"
    /\ call.second_cutoff >= 1
    /\ Empties(Values(heap[ret.puzzle])) = call.first_cutoff + call.second_cutoff

(* C17: Generator("4", "easy").generate_one() clears at most               *)
(* floor(0.34 * 16) = 5 cells in the first pass and none in the second, so *)
(* the puzzle returned has at most 5 empty cells.                          *)
C17_EasyFourByFour ==
    (call.op = "Generator"
        /\ <<call.first_cutoff, call.second_cutoff>> = thresholds["easy"]["4"]) =>
        /\ ret.op = "remove_values_1" => ClearedCount(ret.trace) <= (34 * 16) \div 100
        /\ ret.op = "reduce_pass_2" => ClearedCount(ret.trace) = 0
        /\ ret.op = "generate_one" =>
             Empties(Values(heap[ret.puzzle])) <= (34 * 16) \div 100

(* the seed grids of generator.py and the built-in grids of Generator.py,  *)
(* each with the rank of its board                                         *)
Corpus ==
    {<<start_values["4"][k], 2>> : k \in DOMAIN start_values["4"]}
    \cup {<<start_values["9"][k], 3>> : k \in DOMAIN start_values["9"]}
    \cup {<<start_values["16"][k], 4>> : k \in DOMAIN start_values["16"]}
    \cup {<<LegacyBuiltin(rank), rank>> : rank \in {2, 3, 4}}

(* C18: every seed grid of the corpus is a complete valid solution; and    *)
(* when the seed chosen is not one, generate_one() and the legacy          *)
(* constructor raise, and nothing is randomized, removed or returned.      *)
C18_SeedMustBeSolution ==
    /\ call = Idle /\ ret.op = "none" =>
         \A seed \in Corpus : CompleteAndValid(seed[1], seed[2])
    /\ ret.op = "seed_check" /\ ~CompleteAndValid(call.seed, 2) =>
         ret.raised # "none" /\ call.pc = "raised"
    /\ ret.op = "LegacyGenerator"
            /\ LegacySeed(ret.args[1], ret.args[2]).raised = "none"
            /\ ~CompleteAndValid(LegacySeed(ret.args[1], ret.args[2]).numbers,
                                 LegacySeed(ret.args[1], ret.args[2]).rank) =>
         ret.raised # "none" /\ call = Idle
    /\ call.op \in {"Generator", "LegacyGenerator"}
            /\ call.pc \notin {"generate_one", "raised"} =>
         CompleteAndValid(call.seed, 2)

(* the values no peer of position i holds *)
CandidatesAt(values, i) ==
    {v \in 1..4 : \A j \in PeerPositions2[i] : values[j] # v}

(* the empty positions whose candidate set has exactly one member *)
Singles(values) ==
    {i \in DOMAIN values : values[i] = 0 /\ Cardinality(CandidatesAt(values, i)) = 1}

(* such cells filled with their candidate, the first of them each time,    *)
(* until none is left                                                      *)
RECURSIVE FillSingles(_)
FillSingles(values) ==
    IF Singles(values) = {} THEN values
    ELSE LET i == CHOOSE k \in Singles(values) : \A j \in Singles(values) : k <= j
         IN  FillSingles([values EXCEPT ![i] = CHOOSE v \in CandidatesAt(values, i) : TRUE])

(* C19: the logical pass asks no solver and clears a cell only when its    *)
(* candidate set, computed from its peers at that moment, has exactly one  *)
(* member; on the board it leaves, if a cell is empty then some empty cell *)
(* has exactly one candidate, and filling such cells again and again       *)
(* restores the board the pass started from.                               *)
C19_LogicalPassIsLocal ==
    ret.op \in {"remove_values_1", "reduce_via_logical"} =>
        /\ ret.raised = "none"
        /\ \A k \in DOMAIN ret.trace :
             /\ ret.trace[k].tried = <<>>
             /\ ret.trace[k].possibles
                    = CandidatesAt(ret.trace[k].before, ret.trace[k].cell)
             /\ ret.trace[k].cleared =>
                    Cardinality(CandidatesAt(ret.trace[k].before, ret.trace[k].cell)) = 1
        /\ Empties(Values(heap[board])) > 0 => Singles(Values(heap[board])) # {}
        /\ FillSingles(Values(heap[board])) = ret.before
        /\ ret.before = call.snapshot

C19_Witness ==
    /\ ret.op = "remove_values_1"
    /\ ClearedCount(ret.trace) >= 9
    /\ \E k \in DOMAIN ret.trace :
          ~ret.trace[k].cleared /\ Cardinality(ret.trace[k].possibles) >= 2

(* C20: in the randomized pass, a filled cell visited while the cutoff is  *)
(* positive, none of whose substitute values can_solve() answered True     *)
(* for (a cell that has no substitute value included), is cleared and the  *)
(* cutoff goes down by one.                                                *)
C20_ForcedValueIsCleared ==
    ret.op \in {"reduce_pass_2", "reduce_via_random"} =>
        \A k \in DOMAIN ret.trace :
            (ret.trace[k].cutoff > 0 /\ ret.trace[k].original # 0
                /\ ret.trace[k].hit = 0) =>
                /\ ret.trace[k].cleared
                /\ k < Len(ret.trace) => ret.trace[k + 1].cutoff = ret.trace[k].cutoff - 1

(* the peers of position i that hold a value *)
FilledPeers(values, i) == {j \in PeerPositions2[i] : values[j] # 0}

(* C21: get_density(cell) is the fraction of the cell's peers that are     *)
(* filled, and the randomized pass visits the filled cells in              *)
(* non-increasing order of that fraction as it was when the pass began.    *)
C21_DensityOrder ==
    ret.op \in {"reduce_pass_2", "reduce_via_random"} =>
        /\ \A k \in DOMAIN ret.trace :
             get_density(BoardInit(ret.before).board, ret.trace[k].cell)
                    * Cardinality(PeerPositions2[ret.trace[k].cell])
                = Cardinality(FilledPeers(ret.before, ret.trace[k].cell))
        /\ \A k, l \in DOMAIN ret.trace :
             k < l => Cardinality(FilledPeers(ret.before, ret.trace[k].cell))
                        >= Cardinality(FilledPeers(ret.before, ret.trace[l].cell))

---------------------------------------------------------------------------
(* norvig_solver.Solver call by call: Solver(board) followed by            *)
(* can_solve(), each call of eliminate, each round of its loop over        *)
(* self.units[s], each item of parse_grid and each entry of search being a *)
(* step of its own.  call holds the run m of the call that is active.      *)

(* the structures Solver.__init__ builds for boards of rank 2 and 3 *)
StepRanks == {2, 3}

Structures ==
    AsDict([rank \in StepRanks |->
        AsDict([order \in PeerOrders |->
            SolverStructure(BoardInit(Zeros(rank * rank * rank * rank)).board, order)])])

StructureOf(order) == Structures[heap[board].rank][order]

(* 9x9 boards on which a search tries every candidate of a square in vain: *)
(* the first search of all on the first board, a search below two guesses  *)
(* on the second, which is solved after it                                 *)
SearchBoards9 ==
    {<<0, 2, 0, 4, 0, 6, 0, 0, 0,
       0, 5, 0, 7, 0, 0, 0, 0, 3,
       0, 0, 9, 1, 2, 0, 4, 0, 0,
       2, 0, 0, 3, 0, 0, 0, 9, 1,
       0, 6, 7, 0, 0, 0, 2, 0, 0,
       0, 0, 0, 2, 0, 0, 0, 0, 0,
       0, 0, 0, 6, 0, 0, 0, 7, 8,
       0, 4, 0, 0, 7, 0, 0, 3, 0,
       0, 0, 0, 0, 0, 0, 6, 0, 2>>,
     <<0, 2, 0, 0, 5, 6, 7, 8, 0,
       0, 0, 6, 0, 8, 0, 1, 0, 0,
       7, 0, 9, 0, 0, 0, 0, 5, 6,
       2, 0, 0, 0, 0, 5, 8, 0, 7,
       0, 6, 0, 0, 9, 7, 2, 0, 4,
       0, 9, 0, 0, 0, 0, 0, 0, 0,
       0, 0, 1, 0, 0, 0, 0, 0, 0,
       6, 4, 0, 0, 0, 8, 5, 0, 0,
       9, 0, 8, 0, 0, 1, 0, 4, 0>>}

(* 4x4 boards on which the search finds the first candidate of a square to *)
(* fail and a later one to succeed                                         *)
SearchBoards4 ==
    {<<0, 0, 0, 0,  4, 0, 3, 0,  0, 4, 2, 0,  2, 0, 0, 0>>,
     <<0, 0, 0, 4,  0, 0, 1, 0,  3, 0, 4, 0,  0, 0, 0, 0>>,
     <<3, 0, 2, 0,  0, 2, 0, 0,  0, 3, 1, 0,  0, 0, 0, 0>>}

(* the boards the solver is constructed on: the built-in 4x4 grids with    *)
(* their first k cells cleared, every complete valid 4x4 grid, boards with *)
(* one cell of a partly cleared grid set to another value, a complete 9x9  *)
(* grid and the boards above                                               *)
StepClears == {0, 6, 11}

StepCells == {12, 16}

StepBoards ==
    PreparedBoards
    \cup Completions(Zeros(16), 2)
    \cup {[Cleared(StartValues4[1], k) EXCEPT ![i] = v] :
            k \in StepClears, i \in StepCells, v \in 1..4}
    \cup SearchBoards4
    \cup SearchBoards9
    \cup {StartValues9}

InitStep ==
    /\ \E values \in StepBoards : heap = <<BoardInit(values).board>>
    /\ board = 1
    /\ numbers = <<>>
    /\ ret = NoCall
    /\ prep = 0
    /\ call = Idle

(* a call of assign or of eliminate is running *)
Propagating == call.op # "none" /\ Len(call.m.tasks) > 0

(* Solver(board) up to the loop of parse_grid *)
SolverInit(order) ==
    /\ call = Idle
    /\ ret.op = "none"
    /\ \E gv \in {grid_values(StructureOf(order),
                              AsList([i \in 1..Len(heap[board].cells) |->
                                        CellStr(heap[board].cells[i].value)]))} :
          IF gv.raised # "none"
          THEN /\ ret' = [op |-> "norvig.Solver", args |-> <<Values(heap[board])>>,
                          raised |-> gv.raised, value |-> FALSE]
               /\ call' = call
          ELSE /\ call' = [op |-> "norvig.Solver", order |-> order,
                           m |-> ParseRun(StructureOf(order), gv.dict)]
               /\ ret' = ret
    /\ UNCHANGED <<numbers, heap, board, prep>>

(* one call eliminate(values, s, d), up to the calls it makes *)
EliminateCall ==
    /\ Propagating
    /\ Head(call.m.tasks).op = "eliminate"
    /\ call' = [call EXCEPT !.m = eliminate(StructureOf(call.order), @,
                                            Head(call.m.tasks).s, Head(call.m.tasks).d)]
    /\ UNCHANGED <<numbers, heap, board, ret, prep>>

(* one round of `for u in self.units[s]` *)
UnitRound ==
    /\ Propagating
    /\ Head(call.m.tasks).op = "unit"
    /\ call' = [call EXCEPT !.m = UnitStep(StructureOf(call.order), @,
                                           Head(call.m.tasks).s, Head(call.m.tasks).d,
                                           Head(call.m.tasks).k)]
    /\ UNCHANGED <<numbers, heap, board, ret, prep>>

(* an assign(values, places[0], d) called by eliminate returns values *)
AssignReturn ==
    /\ Propagating
    /\ Head(call.m.tasks).op = "return"
    /\ call' = [call EXCEPT !.m.tasks = Tail(@)]
    /\ UNCHANGED <<numbers, heap, board, ret, prep>>

(* parse_grid between two assignments *)
ParseItem ==
    /\ call.op = "norvig.Solver"
    /\ Len(call.m.tasks) = 0
    /\ ~call.m.done
    /\ call' = [call EXCEPT !.m = ParseStep(StructureOf(call.order), @)]
    /\ UNCHANGED <<numbers, heap, board, ret, prep>>

(* parse_grid has returned self.values; can_solve() calls search on it *)
CanSolveCall ==
    /\ call.op = "norvig.Solver"
    /\ call.m.done
    /\ call' = [call EXCEPT !.op = "norvig.can_solve", !.m = SearchRun(call.m.values)]
    /\ UNCHANGED <<numbers, heap, board, ret, prep>>

(* search(values) entered, or answered by the search it called *)
SearchCall ==
    /\ call.op = "norvig.can_solve"
    /\ Len(call.m.tasks) = 0
    /\ ~call.m.done
    /\ call' = [call EXCEPT !.m = SearchStep(StructureOf(call.order), @)]
    /\ UNCHANGED <<numbers, heap, board, ret, prep>>

(* can_solve() returns *)
CanSolveReturn ==
    /\ call.op = "norvig.can_solve"
    /\ call.m.done
    /\ \E solved \in {~IsEmptyDict(call.m.values)} :
          /\ heap' = IF solved
                     THEN Append(heap, values2board(StructureOf(call.order), call.m.values))
                     ELSE heap
          /\ ret' = [op |-> "norvig.can_solve", args |-> <<Values(heap[board])>>,
                     raised |-> "none", value |-> solved,
                     solution |-> IF solved THEN Len(heap) + 1 ELSE 0,
                     tried |-> call.m.tried, order |-> call.order]
    /\ call' = Idle
    /\ UNCHANGED <<numbers, board, prep>>

NextStep ==
    \/ \E order \in PeerOrders : SolverInit(order)
    \/ EliminateCall
    \/ UnitRound
    \/ AssignReturn
    \/ ParseItem
    \/ CanSolveCall
    \/ SearchCall
    \/ CanSolveReturn

SpecStep == InitStep /\ [][NextStep]_vars

(* the interpreter runs the call that is active until it returns *)
SpecStepFair == SpecStep /\ WF_vars(NextStep)

---------------------------------------------------------------------------
(* Claims about the solver's calls.                                        *)

(* assign or eliminate has returned to parse_grid or to search *)
Propagated == call.op # "none" /\ Len(call.m.tasks) = 0

(* no square of the dict has a candidate it had not before the step *)
NoCandidateGained ==
    \A q \in DOMAIN call'.m.values :
        Range(call'.m.values[q]) \subseteq Range(call.m.values[q])

(* the step took d out of values[s] and nothing else, or it took the last  *)
(* candidate of s and returned {}                                          *)
RemovedOne(s, d) ==
    IF Len(call.m.values[s]) = 1 THEN IsEmptyDict(call'.m.values)
    ELSE /\ DOMAIN call'.m.values = DOMAIN call.m.values
         /\ Range(call'.m.values[s]) = Range(call.m.values[s]) \ {d}
         /\ Len(call'.m.values[s]) = Len(call.m.values[s]) - 1
         /\ \A q \in DOMAIN call.m.values :
                q # s => call'.m.values[q] = call.m.values[q]

(* C22: constraint propagation terminates: while a call of assign or of    *)
(* eliminate runs no candidate set gains a value, every call of eliminate  *)
(* that is not a no-op takes exactly one candidate from one square, the    *)
(* call ends with {} or with a dict in which every square has a candidate, *)
(* and it does end.                                                        *)
C22_PropagationTerminates ==
    /\ [][Propagating =>
            /\ NoCandidateGained
            /\ (Head(call.m.tasks).op = "eliminate"
                    /\ In(Head(call.m.tasks).d, call.m.values[Head(call.m.tasks).s]))
                => RemovedOne(Head(call.m.tasks).s, Head(call.m.tasks).d)
            /\ (Len(call'.m.tasks) = 0 \/ Head(call'.m.tasks).op = "return") =>
                \/ IsEmptyDict(call'.m.values)
                \/ \A q \in DOMAIN call'.m.values : Len(call'.m.values[q]) >= 1]_vars
    /\ (Propagating ~> Propagated)

(* an assignment made by search has ended with a dict after the one made   *)
(* before it for the same square had ended with {}                         *)
C22_Witness ==
    /\ Propagated
    /\ ~IsEmptyDict(call.m.values)
    /\ Len(call.m.choices) > 0
    /\ Head(call.m.choices).k >= 2

(* search is entered, or answered by the search it called, with a dict     *)
Searching ==
    /\ call.op = "norvig.can_solve"
    /\ Len(call.m.tasks) = 0
    /\ ~call.m.done

Solved(values) == ~IsEmptyDict(values) /\ \A q \in DOMAIN values : Len(values[q]) = 1

(* the place of square q in row-major order and the value of digit c *)
RowMajor(q) == IndexOf(StructureOf(call.order).squares, q)

DigitValue(c) == IndexOf(all_digits, c) + 1

(* the candidate the assignment just started keeps in square s of dict     *)
(* values: the one its calls of eliminate do not take                      *)
Kept(values, s, tasks) == Range(values[s]) \ {tasks[i].d : i \in DOMAIN tasks}

(* a search that has its first candidate tried: the square is one of the   *)
(* fewest candidates above one, the first such in row-major order, the     *)
(* candidate is its least, and the dict is kept for the next candidates    *)
Branched ==
    LET values == call.m.values
        top == Head(call'.m.choices)
        d == top.values[top.s][top.k]
    IN  /\ Len(call'.m.choices) = Len(call.m.choices) + 1
        /\ top.values = values
        /\ Len(values[top.s]) > 1
        /\ \A q \in DOMAIN values :
              Len(values[q]) > 1 =>
                 \/ Len(values[top.s]) < Len(values[q])
                 \/ Len(values[top.s]) = Len(values[q]) /\ RowMajor(top.s) <= RowMajor(q)
        /\ \A c \in Range(values[top.s]) : DigitValue(d) <= DigitValue(c)
        /\ call'.m.values = values
        /\ Kept(values, top.s, call'.m.tasks) = {d}
        /\ \A i \in DOMAIN call'.m.tasks : call'.m.tasks[i].s = top.s

(* a search whose candidate failed: the next greater candidate is tried on *)
(* the dict the search was entered with, or, none being left, the search   *)
(* fails in its turn                                                       *)
Retried ==
    LET top == Head(call.m.choices)
        ds == top.values[top.s]
        d == ds[top.k]
        greater == {c \in Range(ds) : DigitValue(c) > DigitValue(d)}
    IN  IF greater = {}
        THEN /\ call'.m.choices = Tail(call.m.choices)
             /\ IsEmptyDict(call'.m.values)
             /\ ~call'.m.done
        ELSE /\ Len(call'.m.choices) = Len(call.m.choices)
             /\ Tail(call'.m.choices) = Tail(call.m.choices)
             /\ Head(call'.m.choices).values = top.values
             /\ Head(call'.m.choices).s = top.s
             /\ call'.m.values = top.values
             /\ \E c \in greater :
                   /\ \A c2 \in greater : DigitValue(c) <= DigitValue(c2)
                   /\ Kept(top.values, top.s, call'.m.tasks) = {c}
                   /\ ds[Head(call'.m.choices).k] = c

(* C23: search is a deterministic depth-first search: it branches on a     *)
(* square of the fewest candidates above one, the first in row-major       *)
(* order, tries its candidates in ascending order, each on a copy of the   *)
(* dict it was entered with, returns the first dict that is solved and {}  *)
(* only when every candidate has failed; runs on equal boards return equal *)
(* solutions, whatever order the peers are visited in.                     *)
C23_SearchIsDeterministic ==
    /\ [][Searching =>
            CASE Solved(call.m.values) ->
                    call'.m.done /\ call'.m.values = call.m.values
              [] ~IsEmptyDict(call.m.values) -> Branched
              [] Len(call.m.choices) > 0 -> Retried
              [] OTHER -> call'.m.done /\ IsEmptyDict(call'.m.values)]_vars
    /\ [](ret.op = "norvig.can_solve" =>
            \A order \in PeerOrders :
                \E r \in {NorvigCanSolveResult(heap[board], order)} :
                    /\ r.raised = "none"
                    /\ r.value = ret.value
                    /\ ret.value => Values(r.solution) = Values(heap[ret.solution]))

(* can_solve() returned True after a search had tried every candidate of a *)
(* square in vain and the search that called it had gone on                *)
C23_Witness ==
    /\ ret.op = "norvig.can_solve"
    /\ ret.value
    /\ ret.tried = 8
    /\ heap[board].side_length = 9

(* C24: on a complete valid board parse_grid leaves one candidate in every *)
(* square, search tries no candidate, can_solve() returns True and the     *)
(* solution has the values of the board.                                   *)
C24_CompleteBoardIsItsSolution ==
    CompleteAndValid(Values(heap[board]), heap[board].rank) =>
        /\ (call.op = "norvig.Solver" /\ call.m.done) => Solved(call.m.values)
        /\ call.op = "norvig.can_solve" =>
              /\ Solved(call.m.values)
              /\ call.m.tried = 0
              /\ call.m.choices = <<>>
        /\ ret.op = "norvig.can_solve" =>
              /\ ret.raised = "none"
              /\ ret.value
              /\ ret.tried = 0
              /\ Values(heap[ret.solution]) = Values(heap[board])

C24_Witness ==
    /\ ret.op = "norvig.can_solve"
    /\ heap[board].side_length = 9
    /\ CompleteAndValid(ret.args[1], 3)

(* a dict closed under rule (1), no peer of a square with the single       *)
(* candidate d has d, and under rule (2), every unit has a square with     *)
(* candidate d, for every digit d                                          *)
Closed(self, values) ==
    /\ \A q \in DOMAIN values :
          Len(values[q]) = 1 =>
              \A p \in self.peers[q] : ~In(values[q][1], values[p])
    /\ \A i \in DOMAIN self.unit_list : \A j \in DOMAIN self.digits :
          \E k \in DOMAIN self.unit_list[i] :
              In(self.digits[j], values[self.unit_list[i][k]])

(* a call of assign made by eliminate is returning values *)
NestedReturn == Propagating /\ Head(call.m.tasks).op = "return"

(* C29 as stated: every dict that parse_grid or any call of assign         *)
(* returns is closed under both propagation rules.                         *)
C29_ReturnedStateIsClosed ==
    ((Propagated \/ NestedReturn) /\ ~IsEmptyDict(call.m.values)) =>
        Closed(StructureOf(call.order), call.m.values)

(* C29, amended: every dict that parse_grid returns, or that assign        *)
(* returns to parse_grid or to search, is closed under both propagation    *)
(* rules.                                                                  *)
C29_PropagatedStateIsClosed ==
    (Propagated /\ ~IsEmptyDict(call.m.values)) =>
        Closed(StructureOf(call.order), call.m.values)

(* an assignment made by search has returned a dict in which some square   *)
(* is left with two candidates or more                                     *)
C29_Witness ==
    /\ Propagated
    /\ call.op = "norvig.can_solve"
    /\ call.m.tried > 0
    /\ ~IsEmptyDict(call.m.values)
    /\ ~Solved(call.m.values)

---------------------------------------------------------------------------
(* Solver.Solver, the brute-force solver, round by round: Solver(board)    *)
(* followed by can_solve(), each round of its while loop being a step.     *)

(* the boards the solver is constructed on: the built-in 4x4 grids with    *)
(* their first k cells cleared, those with their first 8, 12 or 16 cells   *)
(* cleared and one cell set to any value, and the boards of the search     *)
BruteClears == {8, 12, 16}

BruteBoards ==
    PreparedBoards
    \cup {[Cleared(seed, k) EXCEPT ![i] = v] :
            seed \in Range(StartValues4), k \in BruteClears,
            i \in 1..16, v \in 1..4}
    \cup SearchBoards4
    \cup SearchBoards9

InitBrute ==
    /\ \E values \in BruteBoards : heap = <<BoardInit(values).board>>
    /\ board = 1
    /\ numbers = <<>>
    /\ ret = NoCall
    /\ prep = 0
    /\ call = Idle

(* Solver(board) and the entry of can_solve(): index = 0 *)
BruteInit ==
    /\ call = Idle
    /\ ret.op = "none"
    /\ \E new \in {BruteSolver(heap, board)} :
          /\ heap' = new.heap
          /\ call' = [op |-> "brute.can_solve", self |-> new.self, index |-> 0]
    /\ UNCHANGED <<numbers, board, ret, prep>>

(* one round of `while -1 < index < len(self.empties)` *)
BruteRound ==
    /\ call.op = "brute.can_solve"
    /\ BruteRunning(call, call.self.empties)
    /\ \E at \in {BruteStep(heap[call.self.board], call.self.empties, call.index)} :
          /\ heap' = [heap EXCEPT ![call.self.board] = at.board]
          /\ call' = [call EXCEPT !.index = at.index]
    /\ UNCHANGED <<numbers, board, ret, prep>>

(* the loop is left: can_solve() returns *)
BruteReturn ==
    /\ call.op = "brute.can_solve"
    /\ ~BruteRunning(call, call.self.empties)
    /\ ret' = [op |-> "brute.can_solve", args |-> <<Values(heap[board])>>,
               raised |-> "none",
               value |-> IF call.index < 0 THEN FALSE
                         ELSE BruteIsSolution(heap[call.self.board]),
               solver_board |-> call.self.board,
               index |-> call.index, empties |-> call.self.empties]
    /\ call' = Idle
    /\ UNCHANGED <<numbers, heap, board, prep>>

NextBrute ==
    \/ BruteInit
    \/ BruteRound
    \/ BruteReturn

SpecBrute == InitBrute /\ [][NextBrute]_vars

(* the interpreter runs the loop until it is left *)
SpecBruteFair == SpecBrute /\ WF_vars(NextBrute)

(* the values of the solver's board before and after a round *)
Working == Values(heap[call.self.board])

WorkingAfter == Values(heap'[call.self.board])

(* C28: the loop of the brute-force can_solve() terminates: index stays in *)
(* -1..len(empties), no cell's value ever decreases, a forward round       *)
(* raises the value of exactly one cell, an originally empty one, a        *)
(* backward round changes no value, and the loop is left with index = -1   *)
(* or index = len(empties).                                                *)
C28_BruteLoopTerminates ==
    /\ [](call.op = "brute.can_solve" =>
            /\ call.index \in (0 - 1)..Len(call.self.empties)
            /\ \A i \in DOMAIN Working :
                  i \notin Range(call.self.empties) => Working[i] = Values(heap[board])[i])
    /\ [][(call.op = "brute.can_solve" /\ call'.op = "brute.can_solve") =>
            /\ \A i \in DOMAIN Working : WorkingAfter[i] >= Working[i]
            /\ \/ /\ call'.index = call.index + 1
                  /\ \E c \in Range(call.self.empties) :
                        /\ WorkingAfter[c] > Working[c]
                        /\ \A i \in DOMAIN Working : i # c => WorkingAfter[i] = Working[i]
               \/ /\ call'.index = call.index - 1
                  /\ WorkingAfter = Working]_vars
    /\ [](ret.op = "brute.can_solve" => ret.index \in {0 - 1, Len(ret.empties)})
    /\ (call.op = "brute.can_solve" ~> ret.op = "brute.can_solve")

(* the loop was left after rounds in both directions *)
C28_Witness ==
    /\ ret.op = "brute.can_solve"
    /\ ret.index = Len(ret.empties)
    /\ \E i \in DOMAIN ret.args[1] :
          /\ ret.args[1][i] # 0
          /\ \E j \in 1..(i - 1) : ret.args[1][j] = 0
    /\ Values(heap[ret.solver_board]) # ret.args[1]

---------------------------------------------------------------------------
(* Claims about the boards of a generation.                                *)

(* no two peers hold the same value *)
PeersDiffer(values) == ~HasDuplicate(values, RankOfSize(Len(values)))

(* get_possibles(cell) has the value of every filled cell *)
OwnValuePossible(b) ==
    \A i \in DOMAIN b.cells :
        b.cells[i].value # 0 => b.cells[i].value \in get_possibles(b, i)

(* C25: in every board of a generation, after randomize, after each cell a *)
(* pass has handled and with each substitute value of the second pass in   *)
(* place, no two peers hold the same value; but for the substitutes,       *)
(* get_possibles(cell) has the value of every filled cell, and on the      *)
(* complete board randomize leaves it has that value only.                 *)
C25_BoardStaysConsistent ==
    /\ (call.op = "Generator" /\ call.pc \in {"remove_values_1", "reduce_pass_2", "return"}) =>
          /\ PeersDiffer(Values(heap[board]))
          /\ OwnValuePossible(heap[board])
    /\ (call.op = "Generator" /\ call.pc = "remove_values_1"
            /\ CompleteAndValid(Values(heap[board]), heap[board].rank)) =>
          \A i \in DOMAIN heap[board].cells :
              get_possibles(heap[board], i) = {heap[board].cells[i].value}
    /\ ret.op \in {"remove_values_1", "reduce_pass_2"} =>
          \A k \in DOMAIN ret.trace :
              /\ PeersDiffer(ret.trace[k].values)
              /\ OwnValuePossible(BoardInit(ret.trace[k].values).board)
              /\ \A j \in DOMAIN ret.trace[k].tried :
                    PeersDiffer([ret.trace[k].before EXCEPT
                                    ![ret.trace[k].cell] = ret.trace[k].tried[j]])

(* the second pass has cleared a cell after a substitute value, and kept   *)
(* another for which a substitute value was solvable                       *)
C25_Witness ==
    /\ ret.op = "reduce_pass_2"
    /\ \E k \in DOMAIN ret.trace :
          ret.trace[k].cleared /\ Len(ret.trace[k].tried) >= 1
    /\ \E k \in DOMAIN ret.trace : ret.trace[k].hit > 0

(* C26: when the randomized pass has handled a cell, the cell holds its    *)
(* original value or 0 and every other cell holds what it held; if         *)
(* can_solve() answered True for a substitute value, the cell holds its    *)
(* original value and the cutoff is the same for the next cell.            *)
C26_SubstitutionIsUndone ==
    ret.op \in {"reduce_pass_2", "reduce_via_random"} =>
        \A k \in DOMAIN ret.trace :
            /\ ret.trace[k].values[ret.trace[k].cell] \in {ret.trace[k].original, 0}
            /\ \A i \in DOMAIN ret.trace[k].values :
                  i # ret.trace[k].cell => ret.trace[k].values[i] = ret.trace[k].before[i]
            /\ ret.trace[k].hit > 0 =>
                  /\ ret.trace[k].values[ret.trace[k].cell] = ret.trace[k].original
                  /\ k < Len(ret.trace) => ret.trace[k + 1].cutoff = ret.trace[k].cutoff

(* the second pass has kept a cell for which the second substitute value   *)
(* was solvable, gone on to another cell, and cleared a cell               *)
C26_Witness ==
    /\ ret.op = "reduce_pass_2"
    /\ \E k \in DOMAIN ret.trace :
          ret.trace[k].hit >= 2 /\ k < Len(ret.trace)
    /\ \E k \in DOMAIN ret.trace : ret.trace[k].cleared

---------------------------------------------------------------------------
(* The script sudoku_generator.py: generate() gives the fractions of its   *)
(* thresholds to reduce_via_logical and reduce_via_random as they are.     *)

(* thresholds, in thousandths *)
ScriptThresholds ==
    [difficulty \in {"easy", "medium", "hard", "extreme", "insane"} |->
        CASE difficulty = "easy" -> <<440, 0>>
          [] difficulty = "medium" -> <<800, 65>>
          [] difficulty = "hard" -> <<1000, 130>>
          [] difficulty = "extreme" -> <<1000, 195>>
          [] difficulty = "insane" -> <<1000, 260>>]

(* reduce_via_logical(cutoff) and reduce_via_random(cutoff) with a         *)
(* fraction for cutoff                                                     *)
FractionLogical(b, cells, thousandths) ==
    IF thousandths <= 0 THEN [FractionStart(b, cells, thousandths) EXCEPT !.done = TRUE]
    ELSE LogicalLoop(FractionStart(b, cells, thousandths))

FractionRandom(solver, b, thousandths) ==
    IF thousandths <= 0
    THEN [FractionStart(b, SortedByDensity(b, get_filled_cells(b)), thousandths)
            EXCEPT !.done = TRUE]
    ELSE RandomLoop(solver,
                    FractionStart(b, SortedByDensity(b, get_filled_cells(b)),
                                  thousandths))

(* gen.reduce_via_logical(thresholds[difficulty].logical) *)
ScriptReduceViaLogical(difficulty) ==
    /\ call.op = "LegacyGenerator"
    /\ call.pc = "reduce_via_logical"
    /\ \E cells \in Shuffles(get_filled_cells(heap[board])) :
       \E st \in {FractionLogical(heap[board], cells, ScriptThresholds[difficulty][1])} :
         /\ heap' = [heap EXCEPT ![board] = st.board]
         /\ ret' = [op |-> "script.reduce_via_logical",
                    args |-> <<ScriptThresholds[difficulty][1]>>,
                    raised |-> st.raised, value |-> 0,
                    before |-> Values(heap[board]), trace |-> st.trace,
                    finished |-> st.done, cells |-> cells]
         /\ call' = [op |-> "LegacyGenerator", pc |-> "script.reduce_via_random",
                     seed |-> call.seed,
                     logical_cutoff |-> ScriptThresholds[difficulty][1],
                     random_cutoff |-> ScriptThresholds[difficulty][2],
                     solution |-> call.solution, snapshot |-> call.snapshot]
    /\ UNCHANGED <<numbers, board, prep>>

(* gen.reduce_via_random(thresholds[difficulty].random) *)
ScriptReduceViaRandom ==
    /\ call.op = "LegacyGenerator"
    /\ call.pc = "script.reduce_via_random"
    /\ \E st \in {FractionRandom([kind |-> "brute"], heap[board], call.random_cutoff)} :
         /\ heap' = [heap EXCEPT ![board] = st.board]
         /\ ret' = [op |-> "script.reduce_via_random", args |-> <<call.random_cutoff>>,
                    raised |-> st.raised, value |-> 0,
                    before |-> Values(heap[board]), trace |-> st.trace,
                    finished |-> st.done, cells |-> st.cells]
         /\ call' = [call EXCEPT !.pc = "return"]
    /\ UNCHANGED <<numbers, board, prep>>

NextScript ==
    \/ \E rank \in Ranks : \E starter \in 0..Len(numbers["4"]) :
            LegacyGenerator(rank, starter)
    \/ LegacyRandomize
    \/ \E difficulty \in DOMAIN ScriptThresholds : ScriptReduceViaLogical(difficulty)
    \/ ScriptReduceViaRandom
    \/ LegacyReturn

SpecScript == InitGenerate /\ [][NextScript]_vars

(* C27: driven by sudoku_generator.py, reduce_via_logical and              *)
(* reduce_via_random clear at most fraction * size cells, and a larger     *)
(* logical fraction never lets fewer cells be cleared than a smaller one   *)
(* on the same board visited in the same order.                            *)
C27_FractionBoundsRemovals ==
    /\ ret.op \in {"script.reduce_via_logical", "script.reduce_via_random"} =>
          ClearedCount(ret.trace) * Thousand <= ret.args[1] * Len(ret.before)
    /\ ret.op = "script.reduce_via_logical" =>
          \A difficulty \in DOMAIN ScriptThresholds :
              ScriptThresholds[difficulty][1] < ret.args[1] =>
                  ClearedCount(FractionLogical(
                        LegacyBoardInit(RankOfSize(Len(ret.before)), ret.before).board,
                        ret.cells, ScriptThresholds[difficulty][1]).trace)
                    <= ClearedCount(ret.trace)

---------------------------------------------------------------------------
(* The caller's list across a construction.                                *)

(* C30: constructing a board has no effect on the list of values the       *)
(* caller passes in: after Board(values) (board.py) or Board(rank,         *)
(* numbers) (Board.py) returns, the caller's list has the length and the   *)
(* elements it had before the call, and a second board constructed from    *)
(* it equals the first.                                                    *)
C30_ConstructionKeepsCallersList ==
    /\ ret.op = "Board" =>
           /\ numbers = ret.args[1]
           /\ ret.raised = "none" => BoardInit(numbers).board = heap[ret.value]
    /\ ret.op = "LegacyBoard" =>
           /\ numbers = ret.args[2]
           /\ ret.raised = "none" =>
                  LegacyBoardInit(ret.args[1], numbers).board = heap[ret.value]

=============================================================================
